---- MODULE Spec2Model ----
(***************************************************************************)
(* Model of the feed-synchronisation engine of indiekit-endpoint-rss:      *)
(* the sync state machine (lib/sync.js), the controllers that start it     *)
(* (lib/controllers/dashboard.js, status.js) and the document store they   *)
(* share.  One action is one turn of the JavaScript event loop: the code   *)
(* that runs from the completion of one await up to the next await.        *)
(***************************************************************************)
EXTENDS Integers, Sequences, FiniteSets, TLC

NULL == "null"
\* a null date / an absent number (dates and counts are integers)
NoTime == 0 - 1
Absent == 0 - 1

(* ------------------------------ bounds -------------------------------- *)
\* feeds in the rssFeeds collection
NumFeeds == 3
\* runSync invocations tracked at the same time
NumProcs == 2
\* the clock runs from StartTime to StartTime + MaxTicks (days)
StartTime == 40
MaxTicks == 1
\* store operations that may throw in one behaviour
MaxFaults == 1
\* longest remote payload drawn by the sequential specification
MaxPayloadLen == 2

(* ------------------------- program constants -------------------------- *)
DefaultMaxItemsPerFeed == 50
DefaultMaxConcurrent == 3
DefaultRetentionDays == 30
DuplicateKeyCode == 11000

FeedIds == 1..NumFeeds
Procs == 1..NumProcs
\* the owner of the syncFeed invocations that syncSingleFeed makes
Single == 0
Owners == Procs \cup {Single}
Guids == {"g1", "g2"}
OldDate == StartTime - DefaultRetentionDays - 1
PubDates == {NoTime, OldDate, StartTime - 1}

ErrNoDb == "No database available"
ErrInProgress == "Sync already in progress"
ErrFetch == "Failed to fetch feed"
ErrStore == "store error"
ErrOptions == "TypeError"
ErrInvalidUrl == "rss.error.invalidUrl"
ErrDbUnavailable == "Database not available"
ErrFeedExists == "rss.error.feedExists"
ErrFetchFailed == "rss.error.fetchFailed"
ErrDuplicateUrl == "E11000 duplicate key"
MsgFeedAdded == "rss.success.feedAdded"

VARIABLES
  syncState,    \* the module-level syncState object
  now,          \* wall clock, in days
  options,      \* the plugin options every caller passes
  remote,       \* remote[f]: what fetching feed f's url returns
  feedsCol,     \* rssFeeds: feedsCol[f] is the document of feed f
  itemsCol,     \* rssItems: a set of documents
  itemsUnique,  \* the unique index on (feedId, guid) exists
  faults,       \* store operations that may still throw
  cyc,          \* cyc[p]: the p-th runSync / controller invocation
  task,         \* task[<<o, f>>]: the syncFeed invocation of owner o for feed f
  fullDone,     \* history: a cycle has run to completion before
  wire,         \* the response an RssClient is parsing, and what it made of it
  timers        \* the timers of startSync and the module-level syncInterval

vars == <<syncState, now, options, remote, feedsCol, itemsCol, itemsUnique,
          faults, cyc, task, fullDone, wire, timers>>

\* no response is being parsed
NoWire == [pc |-> "none"]

(* ------------------------------ helpers ------------------------------- *)
Min(a, b) == IF a < b THEN a ELSE b
Max(a, b) == IF a > b THEN a ELSE b

RECURSIVE SeqOfSet(_)
\* the elements of a set of integers as an ascending sequence
SeqOfSet(S) ==
  IF S = {} THEN << >>
  ELSE LET m == CHOOSE x \in S : \A y \in S : x <= y
       IN <<m>> \o SeqOfSet(S \ {m})

Range(s) == {s[i] : i \in 1..Len(s)}

\* options.maxItemsPerFeed || 50
MaxItemsPerFeed ==
  IF options.maxItemsPerFeed = 0 THEN DefaultMaxItemsPerFeed
  ELSE options.maxItemsPerFeed

\* options.maxConcurrentFetches || 3
MaxConcurrent ==
  IF options.maxConcurrentFetches = 0 THEN DefaultMaxConcurrent
  ELSE options.maxConcurrentFetches

\* options.retentionDays || 30
RetentionDays ==
  IF options.retentionDays = 0 THEN DefaultRetentionDays
  ELSE options.retentionDays

\* variant: the whole fetched list, without the cut
AllItems(f) == remote[f].items

\* items.slice(0, maxItemsPerFeed)
RecentItems(f) ==
  SubSeq(remote[f].items, 1, Min(MaxItemsPerFeed, Len(remote[f].items)))

\* documents of rssItems matching {feedId, guid}
Matching(f, g) == {d \in itemsCol : d.feedId = f /\ d.guid = g}

\* itemsCollection.countDocuments({feedId})
CountDocuments(f) == Cardinality({d \in itemsCol : d.feedId = f})

\* feedsCollection.updateOne({_id: f}, {$set: doc}): nothing is written when
\* no document has that _id
UpdateOne(f, doc) ==
  IF feedsCol[f].url = NULL THEN feedsCol ELSE [feedsCol EXCEPT ![f] = doc]

\* a store operation may throw while the fault budget lasts
CanFault == faults > 0

(* --------------------------- records ---------------------------------- *)
IdleTask ==
  [pc |-> "idle", idx |-> 0, added |-> 0, ins |-> 0, cnt |-> 0, ret |-> 0,
   err |-> NULL, runs |-> 0]

NoResult == [type |-> "none", msg |-> NULL, feedsProcessed |-> 0,
             itemsAdded |-> 0, itemsPruned |-> Absent]
ErrorResult(m) == [NoResult EXCEPT !.type = "error", !.msg = m]
ThrownResult(m) == [NoResult EXCEPT !.type = "thrown", !.msg = m]
HttpResult(m) == [NoResult EXCEPT !.type = "http", !.msg = m]
OkResult(fp, ia, ip) ==
  [type |-> "ok", msg |-> NULL, feedsProcessed |-> fp, itemsAdded |-> ia,
   itemsPruned |-> ip]

InitSyncState ==
  [lastSync |-> NoTime, syncing |-> FALSE, lastError |-> NULL,
   feedsProcessed |-> 0, itemsAdded |-> 0]

IdleCyc ==
  [pc |-> "idle", feeds |-> << >>, next |-> 1,
   executing |-> {}, cutoff |-> 0, deleted |-> 0, recount |-> << >>,
   rcnt |-> 0, result |-> NoResult, after |-> FALSE, cleared |-> FALSE,
   url |-> NULL, snap |-> InitSyncState, results |-> << >>, feedId |-> 0]

\* getSyncState(): a shallow copy of syncState
getSyncState == [k \in DOMAIN syncState |-> syncState[k]]

BodyPcs == {"indexes", "load", "race", "all", "prune", "prune_find",
            "prune_count", "prune_set"}
\* invocation p is between syncState.syncing = true and its reset
InBody(p) == cyc[p].pc \in BodyPcs

SettledPcs == {"idle", "done", "rejected"}
InFlight(o, f) == task[<<o, f>>].pc \notin SettledPcs

(* ------------------- processFeedsWithLimit (sync.js) ------------------ *)
\* variant: the loop awaits only once the limit is exceeded
MustAwaitAbove(n, limit) == n > limit

\* if (executing.length >= limit) await Promise.race(executing)
MustAwait(n, limit) == n >= limit

RECURSIVE LaunchLoop(_, _, _, _)
\* the for-loop of processFeedsWithLimit from feed number nxt on, run until
\* its next await: the feeds it starts, and what it then awaits
LaunchLoop(fs, nxt, ex, limit) ==
  IF nxt > Len(fs) THEN [next |-> nxt, executing |-> ex, pc |-> "all"]
  ELSE LET ex1 == ex \cup {fs[nxt]}
       IN IF MustAwait(Cardinality(ex1), limit)
          THEN [next |-> nxt + 1, executing |-> ex1, pc |-> "race"]
          ELSE LaunchLoop(fs, nxt + 1, ex1, limit)

\* what syncFeed returned: {feedId, itemsAdded} or {feedId, itemsAdded: 0, error}
TaskResult(f, t) == [feedId |-> f, itemsAdded |-> t.ret, error |-> t.err]

\* variant: the results in the reverse of the input order
CollectReversed(o, fs, tk) ==
  [i \in 1..Len(fs) |->
     TaskResult(fs[Len(fs) + 1 - i], tk[<<o, fs[Len(fs) + 1 - i]>>])]

\* results.push(promise) for every feed in turn; Promise.all(results)
CollectResults(o, fs, tk) ==
  [i \in 1..Len(fs) |-> TaskResult(fs[i], tk[<<o, fs[i]>>])]

\* variant: only the feeds that succeeded are counted
AggregateSucceeded(st, r) ==
  IF r.error # NULL THEN st
  ELSE [st EXCEPT !.itemsAdded = @ + r.itemsAdded, !.feedsProcessed = @ + 1]

\* one turn of the aggregation loop of runSync
AggregateOne(st, r) ==
  [st EXCEPT !.itemsAdded = IF r.itemsAdded # 0 THEN @ + r.itemsAdded ELSE @,
             !.feedsProcessed = @ + 1]

RECURSIVE Aggregate(_, _)
\* for (const result of results) {...}
Aggregate(st, results) ==
  IF results = << >> THEN st
  ELSE Aggregate(AggregateOne(st, Head(results)), Tail(results))

(* ----------------------- leaving a cycle ------------------------------ *)
\* the catch block of runSync
\* a catch block that also stamps lastSync
CycleCatchStampsLastSync(st, m) ==
  [st EXCEPT !.lastError = m, !.syncing = FALSE, !.lastSync = now]

CycleCatch(st, m) == [st EXCEPT !.lastError = m, !.syncing = FALSE]

\* an exit of the try block that leaves lastSync as it was
CycleIdleKeepsLastSync(st) == [st EXCEPT !.syncing = FALSE]

\* lastSync = now; syncing = false (both exits of the try block)
CycleIdle(st) == [st EXCEPT !.lastSync = now, !.syncing = FALSE]

Returned(c, res) ==
  [c EXCEPT !.pc = "idle", !.result = res, !.executing = {}, !.recount = << >>,
            !.rcnt = 0, !.deleted = 0, !.cutoff = 0, !.next = 1, !.url = NULL,
            !.results = << >>, !.feedId = 0]

\* the results of p's settled syncFeed promises go out of scope
Forget(tk, p) ==
  [k \in DOMAIN tk |->
     IF k[1] = p /\ tk[k].pc \in SettledPcs THEN IdleTask ELSE tk[k]]

\* runSync returns {feedsProcessed, itemsAdded, itemsPruned}
Finish(p, pruned) ==
  /\ syncState' = CycleIdle(syncState)
  /\ task' = Forget(task, p)
  /\ cyc' = [cyc EXCEPT ![p] = Returned(@,
               OkResult(syncState.feedsProcessed, syncState.itemsAdded, pruned))]
  /\ fullDone' = TRUE

\* runSync returns {error} from its catch block
Abort(p, m) ==
  /\ syncState' = CycleCatch(syncState, m)
  /\ cyc' = [cyc EXCEPT ![p] = Returned(@, ErrorResult(m))]

(* --------------------- a settled syncFeed promise --------------------- *)
StartedTask == [IdleTask EXCEPT !.pc = "fetch"]

\* processor(feed) is invoked for a feed whose record is t
Launch(t) == [StartedTask EXCEPT !.runs = t.runs + 1]

\* owner o's syncFeed for feed f has taken a step to record tk; when that
\* settles the promise, the awaiting processFeedsWithLimit / runSync
\* continuation runs in the same turn
AfterTask(o, f, tk) ==
  LET t1 == [task EXCEPT ![<<o, f>>] = tk]
  IN
  IF tk.pc \notin {"done", "rejected"} \/ o = Single
       \/ cyc[o].pc \notin {"race", "all"} \/ f \notin cyc[o].executing
  THEN /\ task' = IF o # Single /\ tk.pc \in SettledPcs
                  THEN [t1 EXCEPT ![<<o, f>>] = IdleTask] ELSE t1
       /\ UNCHANGED <<cyc, syncState>>
  ELSE IF tk.pc = "rejected"
  THEN /\ task' = Forget(t1, o)
       /\ Abort(o, tk.err)
  ELSE
    LET c == cyc[o]
        ex == c.executing \ {f}
        lp == IF c.pc = "race"
              THEN LaunchLoop(c.feeds, c.next, ex, MaxConcurrent)
              ELSE [next |-> c.next, executing |-> ex, pc |-> "all"]
        t2 == [k \in DOMAIN t1 |->
                 IF k[1] = o /\ k[2] \in lp.executing \ ex
                 THEN Launch(t1[k]) ELSE t1[k]]
        results == CollectResults(o, c.feeds, t2)
    IN
    /\ task' = t2
    /\ IF lp.pc = "all" /\ lp.executing = {}
       THEN /\ syncState' = Aggregate(syncState, results)
            /\ cyc' = [cyc EXCEPT ![o] =
                 [c EXCEPT !.pc = "prune", !.next = lp.next, !.executing = {},
                           !.cutoff = now - RetentionDays,
                           !.results = results]]
       ELSE /\ cyc' = [cyc EXCEPT ![o] =
                 [c EXCEPT !.pc = lp.pc, !.next = lp.next,
                           !.executing = lp.executing]]
            /\ UNCHANGED syncState

(* ------------------------------ syncFeed ------------------------------ *)
\* the store answers (ok) or throws; a throw uses up the fault budget
StoreOp(ok) ==
  /\ ok \/ CanFault
  /\ faults' = IF ok THEN faults ELSE faults - 1

\* the catch around one upsert (sync.js 208-213): every error is swallowed,
\* only the logging differs
AfterUpsertError(code) == "next"

\* the loop moves to the next item, or on to the item count
NextItem(f, t) ==
  IF t.idx < Len(RecentItems(f))
  THEN [t EXCEPT !.pc = "upsert", !.idx = @ + 1]
  ELSE [t EXCEPT !.pc = "count"]

\* an error thrown inside the try block of syncFeed
ToCatch(t, m) == [t EXCEPT !.pc = "catch", !.err = m]

\* client.fetchFeed(feed.url) answers
FetchFeed(o, f) ==
  LET t == task[<<o, f>>]
  IN /\ t.pc = "fetch"
     /\ AfterTask(o, f, IF remote[f].ok THEN [t EXCEPT !.pc = "meta"]
                        ELSE ToCatch(t, ErrFetch))
     /\ UNCHANGED <<now, options, wire, timers, remote, feedsCol, itemsCol, itemsUnique,
                    faults, fullDone>>

\* client.fetchFeed(feed.url) times out although the remote feed is fine
FetchTimeout(o, f) ==
  LET t == task[<<o, f>>]
  IN /\ t.pc = "fetch"
     /\ remote[f].ok
     /\ AfterTask(o, f, ToCatch(t, ErrFetch))
     /\ UNCHANGED <<now, options, wire, timers, remote, feedsCol, itemsCol, itemsUnique,
                    faults, fullDone>>

\* the $set of the success path: metadata, lastFetchedAt, lastError: null
\* variant: the metadata update leaves lastError as it was
MetaFieldsKeepError(d, f) ==
  [d EXCEPT !.title = remote[f].title, !.lastFetchedAt = now]

MetaFields(d, f) ==
  [d EXCEPT !.title = remote[f].title, !.lastFetchedAt = now,
            !.lastError = NULL]

\* variant: the catch block also resets the cached item count
ErrorFieldsResetCount(d, m) ==
  [d EXCEPT !.lastFetchedAt = now, !.lastError = m, !.itemCount = 0]

\* variant: the catch block records the error without the fetch time
ErrorFieldsNoTime(d, m) == [d EXCEPT !.lastError = m]

\* the $set of the catch block: lastFetchedAt and lastError
ErrorFields(d, m) == [d EXCEPT !.lastFetchedAt = now, !.lastError = m]

\* feedsCollection.updateOne: refreshed metadata, lastFetchedAt, lastError null
UpdateMeta(o, f) ==
  LET t == task[<<o, f>>]
  IN /\ t.pc = "meta"
     /\ \E ok \in BOOLEAN :
          /\ StoreOp(ok)
          /\ IF ok
             THEN /\ feedsCol' = UpdateOne(f, MetaFields(feedsCol[f], f))
                  /\ AfterTask(o, f,
                       IF Len(RecentItems(f)) = 0 THEN [t EXCEPT !.pc = "count"]
                       ELSE [t EXCEPT !.pc = "upsert", !.idx = 1])
             ELSE /\ UNCHANGED feedsCol
                  /\ AfterTask(o, f, ToCatch(t, ErrStore))
     /\ UNCHANGED <<now, options, wire, timers, remote, itemsCol, itemsUnique, fullDone>>

\* the document $setOnInsert writes
NewItem(f, item, n) ==
  [feedId |-> f, guid |-> item.guid, pubDate |-> item.pubDate,
   feedTitle |-> remote[f].title, fetchedAt |-> now, copy |-> n]

\* variant: the upsert writes its fields with $set, onto a matched document too
UpsertOverwrites(col, f, item) ==
  {IF d.feedId = f /\ d.guid = item.guid THEN NewItem(f, item, d.copy) ELSE d :
     d \in col}

\* what the upsert writes onto a document its filter matched: the update has
\* $setOnInsert only, so nothing
UpsertMatched(col, f, item) == col

\* itemsCollection.updateOne(..., {upsert: true}): the store looks the key up
UpsertItem(o, f) ==
  LET t == task[<<o, f>>]
      item == RecentItems(f)[t.idx]
  IN /\ t.pc = "upsert"
     /\ \E ok \in BOOLEAN :
          /\ StoreOp(ok)
          /\ itemsCol' = IF ok /\ Matching(f, item.guid) # {}
                         THEN UpsertMatched(itemsCol, f, item) ELSE itemsCol
          /\ AfterTask(o, f,
               IF ok
               THEN IF Matching(f, item.guid) # {} THEN NextItem(f, t)
                    ELSE [t EXCEPT !.pc = "insert"]
               ELSE IF AfterUpsertError(0) = "next" THEN NextItem(f, t)
                    ELSE ToCatch(t, ErrStore))
     /\ UNCHANGED <<now, options, wire, timers, remote, feedsCol, itemsUnique, fullDone>>

\* the store inserts the document of an upsert that matched nothing; when
\* another writer has inserted the key meanwhile, the unique index makes the
\* insert fail with code 11000, and without the index a second copy is stored
InsertItem(o, f) ==
  LET t == task[<<o, f>>]
      item == RecentItems(f)[t.idx]
      n == Cardinality(Matching(f, item.guid))
      counted == [t EXCEPT !.added = @ + 1, !.ins = @ + 1]
  IN /\ t.pc = "insert"
     /\ IF n > 0 /\ itemsUnique
        THEN /\ UNCHANGED itemsCol
             /\ AfterTask(o, f,
                  IF AfterUpsertError(DuplicateKeyCode) = "next"
                  THEN NextItem(f, t) ELSE ToCatch(t, ErrStore))
        ELSE /\ itemsCol' = itemsCol \cup {NewItem(f, item, n + 1)}
             /\ AfterTask(o, f, NextItem(f, counted))
     /\ UNCHANGED <<now, options, wire, timers, remote, feedsCol, itemsUnique, faults,
                    fullDone>>

\* itemsCollection.countDocuments({feedId})
CountItems(o, f) ==
  LET t == task[<<o, f>>]
  IN /\ t.pc = "count"
     /\ \E ok \in BOOLEAN :
          /\ StoreOp(ok)
          /\ AfterTask(o, f,
               IF ok THEN [t EXCEPT !.pc = "setcount", !.cnt = CountDocuments(f)]
               ELSE ToCatch(t, ErrStore))
     /\ UNCHANGED <<now, options, wire, timers, remote, feedsCol, itemsCol, itemsUnique,
                    fullDone>>

\* feedsCollection.updateOne({$set: {itemCount}}); return {feedId, itemsAdded}
SetItemCount(o, f) ==
  LET t == task[<<o, f>>]
  IN /\ t.pc = "setcount"
     /\ \E ok \in BOOLEAN :
          /\ StoreOp(ok)
          /\ IF ok
             THEN /\ feedsCol' = UpdateOne(f, [feedsCol[f] EXCEPT !.itemCount = t.cnt])
                  /\ AfterTask(o, f, [t EXCEPT !.pc = "done", !.ret = t.added,
                                               !.cnt = 0])
             ELSE /\ UNCHANGED feedsCol
                  /\ AfterTask(o, f, ToCatch(t, ErrStore))
     /\ UNCHANGED <<now, options, wire, timers, remote, itemsCol, itemsUnique, fullDone>>

\* the catch block of syncFeed: record lastFetchedAt and lastError, return
\* {feedId, itemsAdded: 0, error}; when this update throws, syncFeed rejects
RecordError(o, f) ==
  LET t == task[<<o, f>>]
  IN /\ t.pc = "catch"
     /\ \E ok \in BOOLEAN :
          /\ StoreOp(ok)
          /\ IF ok
             THEN /\ feedsCol' = UpdateOne(f, ErrorFields(feedsCol[f], t.err))
                  /\ AfterTask(o, f, [t EXCEPT !.pc = "done", !.ret = 0,
                                               !.cnt = 0])
             ELSE /\ UNCHANGED feedsCol
                  /\ AfterTask(o, f, [t EXCEPT !.pc = "rejected",
                                               !.err = ErrStore, !.cnt = 0])
     /\ UNCHANGED <<now, options, wire, timers, remote, itemsCol, itemsUnique, fullDone>>

(* ------------------------------- runSync ------------------------------ *)
DbArgs == {"db", "indiekit", "nodb"}

\* variant: no check of syncState.syncing
GuardIgnoresBusy(db, syncing) == IF db = "nodb" THEN "nodb" ELSE "go"

\* variant: syncState.syncing is checked before the database
GuardBusyFirst(db, syncing) ==
  IF syncing THEN "busy"
  ELSE IF db = "nodb" THEN "nodb"
  ELSE "go"

\* const db = dbOrIndiekit.database || dbOrIndiekit, and the two guards
Guard(db, syncing) ==
  IF db = "nodb" THEN "nodb"
  ELSE IF syncing THEN "busy"
  ELSE "go"

\* syncing = true; lastError = null; both counters zeroed
BeginCycle(st) ==
  [st EXCEPT !.syncing = TRUE, !.lastError = NULL, !.feedsProcessed = 0,
             !.itemsAdded = 0]

\* runSync(dbOrIndiekit, options) up to its first await; c is the caller's
\* record; optsOk is false when options is undefined, so that
\* options.fetchTimeout throws before the try block is entered
RunSyncCall(p, c, db, optsOk) ==
  LET g == Guard(db, syncState.syncing)
  IN
  IF g = "nodb"
  THEN /\ syncState' = [syncState EXCEPT !.lastError = ErrNoDb]
       /\ cyc' = [cyc EXCEPT ![p] = Returned(c, ErrorResult(ErrNoDb))]
  ELSE IF g = "busy"
  THEN /\ cyc' = [cyc EXCEPT ![p] = Returned(c, ErrorResult(ErrInProgress))]
       /\ UNCHANGED syncState
  ELSE /\ syncState' = BeginCycle(syncState)
       /\ cyc' = [cyc EXCEPT ![p] =
            IF optsOk
            THEN [c EXCEPT !.pc = "indexes", !.result = NoResult,
                           !.feeds = << >>, !.after = fullDone]
            ELSE Returned(c, ThrownResult(ErrOptions))]

\* invocation slot p is free: nothing of its last call is still running
Free(p) == cyc[p].pc = "idle" /\ \A f \in FeedIds : ~InFlight(p, f)

Called(p) == [cyc[p] EXCEPT !.cleared = FALSE]

\* the setInterval / setTimeout callback of startSync: runSync(Indiekit, options)
TimerRun(p) ==
  /\ Free(p)
  /\ \E dbUp \in BOOLEAN :
       RunSyncCall(p, Called(p), IF dbUp THEN "indiekit" ELSE "nodb", TRUE)
  /\ UNCHANGED <<now, options, wire, remote, feedsCol, itemsCol, itemsUnique,
                 faults, task, fullDone>>

\* a timer callback runs, whichever timer it belongs to
TimerTick(p) == TimerRun(p) /\ UNCHANGED timers

\* another module calls the exported runSync(db, options)
DirectCall(p) ==
  /\ Free(p)
  /\ \E db \in DbArgs, optsOk \in BOOLEAN :
       RunSyncCall(p, Called(p), db, optsOk)
  /\ UNCHANGED <<now, options, wire, timers, remote, feedsCol, itemsCol, itemsUnique,
                 faults, task, fullDone>>

\* statusController.refresh: POST /api/refresh
Refresh(p) ==
  /\ Free(p)
  /\ \E dbUp \in BOOLEAN :
       IF getSyncState.syncing
       THEN /\ cyc' = [cyc EXCEPT ![p] =
                 Returned(Called(p), HttpResult(ErrInProgress))]
            /\ UNCHANGED syncState
       ELSE RunSyncCall(p, Called(p),
                        IF dbUp THEN "indiekit" ELSE "nodb", TRUE)
  /\ UNCHANGED <<now, options, wire, timers, remote, feedsCol, itemsCol, itemsUnique,
                 faults, task, fullDone>>

\* dashboardController.sync: POST /sync
ManualSync(p) ==
  /\ Free(p)
  /\ \E dbUp \in BOOLEAN :
       IF ~dbUp
       THEN /\ cyc' = [cyc EXCEPT ![p] =
                 Returned(Called(p), HttpResult(ErrNoDb))]
            /\ UNCHANGED syncState
       ELSE IF getSyncState.syncing
       THEN /\ cyc' = [cyc EXCEPT ![p] =
                 Returned(Called(p), HttpResult(ErrInProgress))]
            /\ UNCHANGED syncState
       ELSE RunSyncCall(p, Called(p), "db", TRUE)
  /\ UNCHANGED <<now, options, wire, timers, remote, feedsCol, itemsCol, itemsUnique,
                 faults, task, fullDone>>

\* dashboardController.clearResync: POST /clear-resync arrives
ClearResync(p) ==
  /\ Free(p)
  /\ \E dbUp \in BOOLEAN :
       cyc' = [cyc EXCEPT ![p] =
         IF dbUp THEN [Called(p) EXCEPT !.pc = "clear_items",
                                                 !.result = NoResult]
         ELSE Returned(Called(p), HttpResult(ErrNoDb))]
  /\ UNCHANGED <<syncState, now, options, wire, timers, remote, feedsCol, itemsCol,
                 itemsUnique, faults, task, fullDone>>

\* clearResync: itemsCollection.deleteMany({})
ClearItems(p) ==
  /\ cyc[p].pc = "clear_items"
  /\ \E ok \in BOOLEAN :
       /\ StoreOp(ok)
       /\ IF ok
          THEN /\ itemsCol' = {}
               /\ cyc' = [cyc EXCEPT ![p].pc = "clear_counts",
                                     ![p].cleared = TRUE]
          ELSE /\ UNCHANGED itemsCol
               /\ cyc' = [cyc EXCEPT ![p] = Returned(@, HttpResult(ErrStore))]
  /\ UNCHANGED <<syncState, now, options, wire, timers, remote, feedsCol, itemsUnique,
                 task, fullDone>>

\* clearResync: feedsCollection.updateMany({}, {itemCount: 0}), then runSync
ClearCounts(p) ==
  /\ cyc[p].pc = "clear_counts"
  /\ \E ok \in BOOLEAN :
       /\ StoreOp(ok)
       /\ IF ok
          THEN /\ feedsCol' = [f \in FeedIds |->
                                 [feedsCol[f] EXCEPT !.itemCount = 0]]
               /\ RunSyncCall(p, cyc[p], "db", TRUE)
          ELSE /\ UNCHANGED <<feedsCol, syncState>>
               /\ cyc' = [cyc EXCEPT ![p] = Returned(@, HttpResult(ErrStore))]
  /\ UNCHANGED <<now, options, wire, timers, remote, itemsCol, itemsUnique, task, fullDone>>

\* variant: the (feedId, guid) index is not unique
PlainItemKey == FALSE

\* createIndex({feedId: 1, guid: 1}, {unique: true})
UniqueItemKey == TRUE

\* await createIndexes(feedsCollection, itemsCollection)
\* the slots of rssFeeds that hold a document
StoredFeeds == {f \in FeedIds : feedsCol[f].url # NULL}

\* two stored feeds with one url: createIndex({url: 1}, {unique: true}) fails
DuplicateUrls ==
  \E f \in StoredFeeds : \E g \in StoredFeeds \ {f} : feedsCol[f].url = feedsCol[g].url

CreateIndexes(p) ==
  /\ cyc[p].pc = "indexes"
  /\ \E ok \in BOOLEAN :
       /\ StoreOp(ok)
       /\ IF ok /\ (itemsUnique \/ ~DuplicateUrls)
          THEN /\ itemsUnique' = (itemsUnique \/ UniqueItemKey)
               /\ cyc' = [cyc EXCEPT ![p].pc = "load"]
               /\ UNCHANGED syncState
          ELSE /\ UNCHANGED itemsUnique
               /\ Abort(p, ErrStore)
  /\ UNCHANGED <<now, options, wire, timers, remote, feedsCol, itemsCol, task, fullDone>>

\* feedsCollection.find({enabled: true}).toArray()
EnabledFeeds == SeqOfSet({f \in FeedIds : feedsCol[f].enabled})

\* the feeds are loaded; an empty list ends the cycle, otherwise
\* processFeedsWithLimit starts its first processors
LoadFeeds(p) ==
  /\ cyc[p].pc = "load"
  /\ \E ok \in BOOLEAN :
       /\ StoreOp(ok)
       /\ IF ~ok
          THEN /\ Abort(p, ErrStore)
               /\ UNCHANGED <<task, fullDone>>
          ELSE IF Len(EnabledFeeds) = 0
          THEN /\ syncState' = CycleIdle(syncState)
               /\ cyc' = [cyc EXCEPT ![p] = Returned(@, OkResult(0, 0, Absent))]
               /\ UNCHANGED <<task, fullDone>>
          ELSE LET lp == LaunchLoop(EnabledFeeds, 1, {}, MaxConcurrent)
               IN /\ task' = [k \in DOMAIN task |->
                                IF k[1] # p THEN task[k]
                                ELSE IF k[2] \in lp.executing THEN Launch(IdleTask)
                                ELSE IdleTask]
                  /\ cyc' = [cyc EXCEPT ![p] =
                       [@ EXCEPT !.pc = lp.pc, !.feeds = EnabledFeeds,
                                 !.next = lp.next, !.executing = lp.executing]]
                  /\ UNCHANGED <<syncState, fullDone>>
  /\ UNCHANGED <<now, options, wire, timers, remote, feedsCol, itemsCol, itemsUnique>>

(* ---------------------------- pruneOldItems --------------------------- *)
\* variant: a null pubDate compares as older than every cutoff
ExpiredOrUndated(d, cutoff) == d.pubDate < cutoff

\* the filter {pubDate: {$lt: cutoff}}: a null pubDate never matches
Expired(d, cutoff) == d.pubDate # NoTime /\ d.pubDate < cutoff

\* itemsCollection.deleteMany({pubDate: {$lt: cutoff}})
PruneDelete(p) ==
  LET old == {d \in itemsCol : Expired(d, cyc[p].cutoff)}
  IN /\ cyc[p].pc = "prune"
     /\ \E ok \in BOOLEAN :
          /\ StoreOp(ok)
          /\ IF ~ok
             THEN /\ Finish(p, 0)
                  /\ UNCHANGED itemsCol
             ELSE /\ itemsCol' = itemsCol \ old
                  /\ IF Cardinality(old) > 0
                     THEN /\ cyc' = [cyc EXCEPT ![p].pc = "prune_find",
                                           ![p].deleted = Cardinality(old)]
                          /\ UNCHANGED <<syncState, fullDone, task>>
                     ELSE Finish(p, 0)
     /\ UNCHANGED <<now, options, wire, timers, remote, feedsCol, itemsUnique>>

\* feedsCollection.find({}).toArray()
PruneFind(p) ==
  /\ cyc[p].pc = "prune_find"
  /\ \E ok \in BOOLEAN :
       /\ StoreOp(ok)
       /\ IF ok
          THEN IF StoredFeeds = {}
               THEN Finish(p, cyc[p].deleted)
               ELSE /\ cyc' = [cyc EXCEPT ![p].pc = "prune_count",
                                     ![p].recount = SeqOfSet(StoredFeeds)]
                    /\ UNCHANGED <<syncState, fullDone, task>>
          ELSE Finish(p, 0)
  /\ UNCHANGED <<now, options, wire, timers, remote, feedsCol, itemsCol, itemsUnique>>

\* itemsCollection.countDocuments({feedId: feed._id})
PruneCount(p) ==
  /\ cyc[p].pc = "prune_count"
  /\ \E ok \in BOOLEAN :
       /\ StoreOp(ok)
       /\ IF ok
          THEN /\ cyc' = [cyc EXCEPT ![p].pc = "prune_set",
                           ![p].rcnt = CountDocuments(Head(cyc[p].recount))]
               /\ UNCHANGED <<syncState, fullDone, task>>
          ELSE Finish(p, 0)
  /\ UNCHANGED <<now, options, wire, timers, remote, feedsCol, itemsCol, itemsUnique>>

\* feedsCollection.updateOne({$set: {itemCount: count}})
PruneSet(p) ==
  LET f == Head(cyc[p].recount)
  IN /\ cyc[p].pc = "prune_set"
     /\ \E ok \in BOOLEAN :
          /\ StoreOp(ok)
          /\ IF ~ok
             THEN /\ Finish(p, 0)
                  /\ UNCHANGED feedsCol
             ELSE /\ feedsCol' =
                    UpdateOne(f, [feedsCol[f] EXCEPT !.itemCount = cyc[p].rcnt])
                  /\ IF Len(cyc[p].recount) > 1
                     THEN /\ cyc' = [cyc EXCEPT ![p].pc = "prune_count",
                                       ![p].recount = Tail(@), ![p].rcnt = 0]
                          /\ UNCHANGED <<syncState, fullDone, task>>
                     ELSE Finish(p, cyc[p].deleted)
     /\ UNCHANGED <<now, options, wire, timers, remote, itemsCol, itemsUnique>>

(* --------------------------- syncSingleFeed --------------------------- *)
\* syncSingleFeed(db, feedId, options) is called for feed f
\* wellFormed: new ObjectId(feedId) accepts the id; f is then the feed
\* document with that _id, if there is one
StartSingleWith(f, wellFormed) ==
  /\ \A g \in FeedIds : ~InFlight(Single, g)
  /\ task' = [k \in DOMAIN task |->
                IF k[1] # Single THEN task[k]
                ELSE IF k[2] = f
                THEN [IdleTask EXCEPT !.pc = IF wellFormed THEN "lookup"
                                            ELSE "badid"]
                ELSE IdleTask]
  /\ UNCHANGED <<syncState, now, options, wire, timers, remote, feedsCol, itemsCol,
                 itemsUnique, faults, cyc, fullDone>>

\* syncSingleFeed is called with the id of a feed document
StartSingle(f) == StartSingleWith(f, TRUE)

ErrFeedNotFound == "Feed not found"
ErrBadId == "BSONError"

\* import("mongodb") has resolved: new ObjectId(feedId) throws, or
\* feedsCollection.findOne({_id}) answers and syncFeed starts its fetch
LookupFeed(f) ==
  LET t == task[<<Single, f>>]
  IN /\ t.pc \in {"lookup", "badid"}
     /\ \E ok \in BOOLEAN :
          /\ StoreOp(ok)
          /\ t.pc = "badid" => ok
          /\ task' = [task EXCEPT ![<<Single, f>>] =
               IF t.pc = "badid"
               THEN [t EXCEPT !.pc = "rejected", !.err = ErrBadId]
               ELSE IF ~ok THEN [t EXCEPT !.pc = "rejected", !.err = ErrStore]
               ELSE IF f \notin StoredFeeds
               THEN [t EXCEPT !.pc = "done", !.err = ErrFeedNotFound]
               ELSE [t EXCEPT !.pc = "fetch"]]
     /\ UNCHANGED <<syncState, now, options, wire, timers, remote, feedsCol, itemsCol,
                    itemsUnique, cyc, fullDone>>

(* ------------------------- feedsController ---------------------------- *)
\* feedsController.toggle: PATCH /api/feeds/:id with {enabled}
ToggleFeed(f, en) ==
  /\ feedsCol[f].enabled # en
  /\ feedsCol' = [feedsCol EXCEPT ![f].enabled = en]
  /\ UNCHANGED <<syncState, now, options, wire, timers, remote, itemsCol, itemsUnique,
                 faults, cyc, task, fullDone>>

(* ---------------------- statusController.status ---------------------- *)
MsgMutated == "written by the caller"

\* the engine state after a caller wrote into the object getSyncState gave
\* it, if that object were syncState itself
EngineAliased(st, written) == written

\* the engine state after a caller wrote into the object getSyncState gave
\* it: { ...syncState } is a new object, the write does not reach syncState
EngineAfterWrite(st, written) == st

\* the body of the status response, built from the snapshot
StatusResult(sn) ==
  [type |-> "status", msg |-> sn.lastError, feedsProcessed |-> sn.feedsProcessed,
   itemsAdded |-> sn.itemsAdded, itemsPruned |-> Absent]

\* GET /api/status: the snapshot is taken, then the counts are awaited when
\* there is a database, else the response is sent at once
StatusRequest(p) ==
  /\ Free(p)
  /\ \E dbUp \in BOOLEAN :
       cyc' = [cyc EXCEPT ![p] =
         IF dbUp
         THEN [Called(p) EXCEPT !.pc = "status", !.snap = getSyncState,
                                !.result = NoResult]
         ELSE Returned([Called(p) EXCEPT !.snap = getSyncState],
                       StatusResult(getSyncState))]
  /\ UNCHANGED <<syncState, now, options, wire, timers, remote, feedsCol, itemsCol,
                 itemsUnique, faults, task, fullDone>>

\* the three countDocuments calls have answered: the response is sent
StatusRespond(p) ==
  /\ cyc[p].pc = "status"
  /\ \E ok \in BOOLEAN :
       /\ StoreOp(ok)
       /\ cyc' = [cyc EXCEPT ![p] =
            Returned(@, IF ok THEN StatusResult(cyc[p].snap)
                        ELSE HttpResult(ErrStore))]
  /\ UNCHANGED <<syncState, now, options, wire, timers, remote, feedsCol, itemsCol,
                 itemsUnique, task, fullDone>>

\* a holder of a snapshot writes into it
MutateSnapshot(p) ==
  /\ cyc[p].pc = "status"
  /\ cyc[p].snap.lastError # MsgMutated
  /\ LET written == [cyc[p].snap EXCEPT !.lastError = MsgMutated,
                                        !.syncing = ~@, !.itemsAdded = @ + 1]
     IN /\ cyc' = [cyc EXCEPT ![p].snap = written]
        /\ syncState' = EngineAfterWrite(syncState, written)
  /\ UNCHANGED <<now, options, wire, timers, remote, feedsCol, itemsCol, itemsUnique,
                 faults, task, fullDone>>

(* ------------------------ feedsController.add ------------------------- *)
NewFeed(en) ==
  [url |-> NULL, enabled |-> en, title |-> "added", lastFetchedAt |-> NoTime,
   lastError |-> NULL, itemCount |-> 0]

\* the urls of the feeds that are stored when the model starts
SeedUrls == <<"http://s1/feed", "http://s2/feed", "http://s3/feed", "http://s4/feed">>

\* a feed document that is already stored under the f-th seed url
SeedFeed(f, en) == [NewFeed(en) EXCEPT !.url = SeedUrls[f]]

\* the url values a POST /api/feeds body is drawn from
RawUrls == {"http://a/feed", "http://a/feed/", "http://b/", "ftp://a/feed"}

\* new URL(url) parses and its protocol is http: or https:
isValidUrl(url) == url # "ftp://a/feed"

\* new URL(url).href without its trailing slash, unless the path is "/"
normalizeUrl(url) == IF url = "http://a/feed/" THEN "http://a/feed" ELSE url

\* a lookup that matches no document
FindNothing(col, u) == {}

\* feedsCollection.findOne({url: normalizedUrl})
FindByUrl(col, u) == {f \in FeedIds : col[f].url = u}

\* the add requests that have not answered yet
AddsInFlight == {p \in Procs : cyc[p].pc \in {"add_find", "add_fetch", "add_insert"}}

\* POST /api/feeds with body {url: raw}: validation, normalization, database
AddFeed(p, raw) ==
  /\ Free(p)
  /\ Cardinality(StoredFeeds) + Cardinality(AddsInFlight) < NumFeeds
  /\ \E dbUp \in BOOLEAN :
       cyc' = [cyc EXCEPT ![p] =
         IF ~isValidUrl(raw) THEN Returned(Called(p), HttpResult(ErrInvalidUrl))
         ELSE IF ~dbUp THEN Returned(Called(p), HttpResult(ErrDbUnavailable))
         ELSE [Called(p) EXCEPT !.pc = "add_find", !.url = normalizeUrl(raw),
                                !.result = NoResult]]
  /\ UNCHANGED <<syncState, now, options, wire, timers, remote, feedsCol, itemsCol,
                 itemsUnique, faults, task, fullDone>>

\* the answer of findOne: 409 when a document has the url, else the fetch
AddFind(p) ==
  /\ cyc[p].pc = "add_find"
  /\ \E ok \in BOOLEAN :
       /\ StoreOp(ok)
       /\ cyc' = [cyc EXCEPT ![p] =
            IF ~ok THEN Returned(@, HttpResult(ErrStore))
            ELSE IF FindByUrl(feedsCol, cyc[p].url) # {}
            THEN Returned(@, HttpResult(ErrFeedExists))
            ELSE [@ EXCEPT !.pc = "add_fetch"]]
  /\ UNCHANGED <<syncState, now, options, wire, timers, remote, feedsCol, itemsCol,
                 itemsUnique, task, fullDone>>

\* the answer of client.fetchFeed(normalizedUrl): 400 when it throws
AddFetch(p) ==
  /\ cyc[p].pc = "add_fetch"
  /\ \E fetched \in BOOLEAN :
       cyc' = [cyc EXCEPT ![p] =
         IF fetched THEN [@ EXCEPT !.pc = "add_insert"]
         ELSE Returned(@, HttpResult(ErrFetchFailed))]
  /\ UNCHANGED <<syncState, now, options, wire, timers, remote, feedsCol, itemsCol,
                 itemsUnique, faults, task, fullDone>>

\* feedsCollection.insertOne(feed) and the 201 response
AddInsert(p) ==
  LET f == CHOOSE g \in FeedIds \ StoredFeeds :
             \A h \in FeedIds \ StoredFeeds : g <= h
      u == cyc[p].url
  IN /\ cyc[p].pc = "add_insert"
     /\ \E ok \in BOOLEAN :
          /\ StoreOp(ok)
          /\ IF ~ok
             THEN /\ cyc' = [cyc EXCEPT ![p] = Returned(@, HttpResult(ErrStore))]
                  /\ UNCHANGED feedsCol
             ELSE IF itemsUnique /\ \E g \in StoredFeeds : feedsCol[g].url = u
             THEN /\ cyc' = [cyc EXCEPT ![p] =
                       Returned(@, HttpResult(ErrDuplicateUrl))]
                  /\ UNCHANGED feedsCol
             ELSE /\ feedsCol' = [feedsCol EXCEPT ![f] =
                       [NewFeed(TRUE) EXCEPT !.url = u, !.title = "fetched"]]
                  /\ cyc' = [cyc EXCEPT ![p] =
                       Returned(@, HttpResult(MsgFeedAdded))]
     /\ UNCHANGED <<syncState, now, options, wire, timers, remote, itemsCol, itemsUnique,
                    task, fullDone>>

(* --------------------------- the remote feeds ------------------------- *)
\* what the url of a feed may serve over time: its title and its items change
RemoteVariants ==
  {[ok |-> TRUE, title |-> "fetched",
    items |-> <<[guid |-> "g1", pubDate |-> StartTime - 1]>>],
   [ok |-> TRUE, title |-> "renamed",
    items |-> <<[guid |-> "g1", pubDate |-> NoTime]>>],
   [ok |-> TRUE, title |-> "renamed",
    items |-> <<[guid |-> "g2", pubDate |-> StartTime - 1],
                [guid |-> "g1", pubDate |-> StartTime - 1]>>],
   [ok |-> FALSE, title |-> "fetched", items |-> << >>]}

\* syncFeed holds the payload it fetched in local variables
HoldsPayload(o, f) ==
  task[<<o, f>>].pc \in {"meta", "upsert", "insert", "count", "setcount"}

\* the remote feed f changes what it serves; a change takes effect with the
\* next fetch, so it is taken while no syncFeed holds a payload of f
RemoteChange(f) ==
  /\ \A o \in Owners : ~HoldsPayload(o, f)
  /\ \E v \in RemoteVariants \ {remote[f]} : remote' = [remote EXCEPT ![f] = v]
  /\ UNCHANGED <<syncState, now, options, wire, timers, feedsCol, itemsCol, itemsUnique,
                 faults, cyc, task, fullDone>>

(* ------------------------------- clock -------------------------------- *)
Tick ==
  /\ now < StartTime + MaxTicks
  /\ now' = now + 1
  /\ UNCHANGED <<syncState, options, wire, timers, remote, feedsCol, itemsCol, itemsUnique,
                 faults, cyc, task, fullDone>>

(* ----------------------- feedsController.remove ----------------------- *)
ErrInvalidId == "Invalid feed ID"
ErrNoSuchFeed == "rss.error.feedNotFound"
MsgFeedRemoved == "rss.success.feedRemoved"

\* DELETE /api/feeds/:id for the id of slot f: ObjectId.isValid, database
RemoveFeed(p, f) ==
  /\ Free(p)
  /\ \E valid \in BOOLEAN, dbUp \in BOOLEAN :
       cyc' = [cyc EXCEPT ![p] =
         IF ~valid THEN Returned(Called(p), HttpResult(ErrInvalidId))
         ELSE IF ~dbUp THEN Returned(Called(p), HttpResult(ErrDbUnavailable))
         ELSE [Called(p) EXCEPT !.pc = "rm_find", !.feedId = f,
                                !.result = NoResult]]
  /\ UNCHANGED <<syncState, now, options, wire, timers, remote, feedsCol, itemsCol,
                 itemsUnique, faults, task, fullDone>>

\* feedsCollection.findOne({_id: feedId}): 404 when there is no document
RemoveFind(p) ==
  /\ cyc[p].pc = "rm_find"
  /\ \E ok \in BOOLEAN :
       /\ StoreOp(ok)
       /\ cyc' = [cyc EXCEPT ![p] =
            IF ~ok THEN Returned(@, HttpResult(ErrStore))
            ELSE IF feedsCol[cyc[p].feedId].url = NULL
            THEN Returned(@, HttpResult(ErrNoSuchFeed))
            ELSE [@ EXCEPT !.pc = "rm_items"]]
  /\ UNCHANGED <<syncState, now, options, wire, timers, remote, feedsCol, itemsCol,
                 itemsUnique, task, fullDone>>

\* itemsCollection.deleteMany({feedId})
DeleteItemsOf(col, f) == {d \in col : d.feedId # f}

RemoveItems(p) ==
  /\ cyc[p].pc = "rm_items"
  /\ \E ok \in BOOLEAN :
       /\ StoreOp(ok)
       /\ IF ok
          THEN /\ itemsCol' = DeleteItemsOf(itemsCol, cyc[p].feedId)
               /\ cyc' = [cyc EXCEPT ![p].pc = "rm_feed"]
          ELSE /\ UNCHANGED itemsCol
               /\ cyc' = [cyc EXCEPT ![p] = Returned(@, HttpResult(ErrStore))]
  /\ UNCHANGED <<syncState, now, options, wire, timers, remote, feedsCol,
                 itemsUnique, task, fullDone>>

\* feedsCollection.deleteOne({_id: feedId}) and the response
RemoveDoc(p) ==
  /\ cyc[p].pc = "rm_feed"
  /\ \E ok \in BOOLEAN :
       /\ StoreOp(ok)
       /\ IF ok
          THEN /\ feedsCol' = [feedsCol EXCEPT ![cyc[p].feedId] = NewFeed(FALSE)]
               /\ cyc' = [cyc EXCEPT ![p] = Returned(@, HttpResult(MsgFeedRemoved))]
          ELSE /\ UNCHANGED feedsCol
               /\ cyc' = [cyc EXCEPT ![p] = Returned(@, HttpResult(ErrStore))]
  /\ UNCHANGED <<syncState, now, options, wire, timers, remote, itemsCol,
                 itemsUnique, task, fullDone>>

(* ------------------- formatFeed and formatItem (utils.js) ------------- *)
\* the JavaScript values a stored time can be: null, a Date object, and the
\* string new Date().toISOString() returns
JsNull == [js |-> "null", t |-> NoTime]
DateObject(t) == [js |-> "date", t |-> t]
IsoString(t) == [js |-> "string", t |-> t]

\* what the writers store: lastFetchedAt is null in a new feed
\* (dashboard.js 364) and new Date().toISOString() after a sync (sync.js 179,
\* 233); addedAt is new Date() (dashboard.js 363); fetchedAt is
\* new Date().toISOString() (sync.js 200); pubDate is the Date of the parser
\* or null
LastFetchedAtOf(d) ==
  IF d.lastFetchedAt = NoTime THEN JsNull ELSE IsoString(d.lastFetchedAt)
AddedAtOf(d) == DateObject(StartTime)
FetchedAtOf(d) == IsoString(d.fetchedAt)
PubDateOf(d) == IF d.pubDate = NoTime THEN JsNull ELSE DateObject(d.pubDate)

ErrNotAFunction == "toISOString is not a function"
MsgRendered == "200"

\* v?.toISOString(): undefined for null, the ISO string of a Date, and a
\* TypeError for a string, which has no such method
ToISOString(v) ==
  CASE v.js = "null" -> [ok |-> TRUE, value |-> JsNull]
    [] v.js = "date" -> [ok |-> TRUE, value |-> IsoString(v.t)]
    [] OTHER -> [ok |-> FALSE, value |-> JsNull]

\* formatFeed(feed) and formatItem(item) return without throwing
formatFeed(d) == ToISOString(AddedAtOf(d)).ok /\ ToISOString(LastFetchedAtOf(d)).ok
formatItem(d) == ToISOString(PubDateOf(d)).ok /\ ToISOString(FetchedAtOf(d)).ok

\* GET /api/feeds (feedsController.list) or GET / (dashboardController.get)
\* arrives
ViewRequest(p, page) ==
  /\ Free(p)
  /\ \E dbUp \in BOOLEAN :
       cyc' = [cyc EXCEPT ![p] =
         IF ~dbUp THEN Returned(Called(p), HttpResult(ErrDbUnavailable))
         ELSE [Called(p) EXCEPT !.pc = page, !.result = NoResult]]
  /\ UNCHANGED <<syncState, now, options, wire, timers, remote, feedsCol, itemsCol,
                 itemsUnique, faults, task, fullDone>>

\* the documents are found and formatted: feeds.map(formatFeed), and on the
\* dashboard recentItems.map(formatItem) too; an error is caught and answered
ViewRespond(p) ==
  /\ cyc[p].pc \in {"list", "dashboard"}
  /\ \E ok \in BOOLEAN :
       /\ StoreOp(ok)
       /\ cyc' = [cyc EXCEPT ![p] =
            IF ~ok THEN Returned(@, HttpResult(ErrStore))
            ELSE IF /\ \A f \in FeedIds : feedsCol[f].url # NULL => formatFeed(feedsCol[f])
                    /\ cyc[p].pc = "dashboard" => \A d \in itemsCol : formatItem(d)
            THEN Returned(@, HttpResult(MsgRendered))
            ELSE Returned(@, HttpResult(ErrNotAFunction))]
  /\ UNCHANGED <<syncState, now, options, wire, timers, remote, feedsCol, itemsCol,
                 itemsUnique, task, fullDone>>

(* ---------------------- startSync and stopSync ------------------------ *)
\* the calls of startSync the model follows
MaxStarts == 2

\* everything but the timers
engine == <<syncState, now, options, remote, feedsCol, itemsCol, itemsUnique,
            faults, cyc, task, fullDone, wire>>

\* startSync(Indiekit, options): setTimeout for the initial run, whose handle
\* is dropped, and setInterval, whose handle is assigned to syncInterval
StartSync ==
  /\ timers.started < MaxStarts
  /\ LET h == timers.started + 1
     IN timers' = [timers EXCEPT !.started = h,
                                 !.timeouts = @ \cup {h},
                                 !.intervals = @ \cup {h},
                                 !.syncInterval = h,
                                 !.stopped = FALSE]
  /\ UNCHANGED engine

\* stopSync(): if (syncInterval) { clearInterval(syncInterval); syncInterval = null }
StopTimers(t) ==
  IF t.syncInterval # 0
  THEN [t EXCEPT !.intervals = @ \ {t.syncInterval}, !.syncInterval = 0,
                 !.stopped = TRUE]
  ELSE [t EXCEPT !.stopped = TRUE]

StopSync ==
  /\ timers.started > 0
  /\ timers' = StopTimers(timers)
  /\ UNCHANGED engine

\* the setTimeout callback of the h-th startSync: runSync(Indiekit, options)
InitialRun(h, p) ==
  /\ h \in timers.timeouts
  /\ timers' = [timers EXCEPT !.timeouts = @ \ {h}]
  /\ TimerRun(p)

\* the setInterval callback of the h-th startSync: runSync(Indiekit, options)
IntervalRun(h, p) ==
  /\ h \in timers.intervals
  /\ UNCHANGED timers
  /\ TimerRun(p)

(* --------------------------- specifications --------------------------- *)
Item(g, d) == [guid |-> g, pubDate |-> d]

Remote(ok, items) == [ok |-> ok, title |-> "fetched", items |-> items]

Options(cap, limit, days) ==
  [maxItemsPerFeed |-> cap, maxConcurrentFetches |-> limit,
   retentionDays |-> days]

\* no timer is pending, syncInterval is null (0); started counts the calls
\* of startSync, whose timers carry the number of their call; stopped tells
\* that stopSync has returned and startSync was not called since
NoTimers ==
  [syncInterval |-> 0, intervals |-> {}, timeouts |-> {}, started |-> 0,
   stopped |-> FALSE]

InitEngine ==
  /\ timers = NoTimers
  /\ syncState = InitSyncState
  /\ now = StartTime
  /\ itemsCol = {}
  /\ itemsUnique = FALSE
  /\ cyc = [p \in Procs |-> IdleCyc]
  /\ task = [k \in Owners \X FeedIds |-> IdleTask]
  /\ fullDone = FALSE

InitCommon ==
  /\ InitEngine
  /\ wire = NoWire

TaskStep(o, f) ==
  \/ FetchFeed(o, f)
  \/ UpdateMeta(o, f)
  \/ UpsertItem(o, f)
  \/ InsertItem(o, f)
  \/ CountItems(o, f)
  \/ SetItemCount(o, f)
  \/ RecordError(o, f)

CycleStep(p) ==
  \/ CreateIndexes(p)
  \/ LoadFeeds(p)
  \/ PruneDelete(p)
  \/ PruneFind(p)
  \/ PruneCount(p)
  \/ PruneSet(p)
  \/ \E f \in FeedIds : TaskStep(p, f)

\* Spec: every way of starting a cycle, from every invocation slot, against
\* a store that may throw; one feed is enabled and its one item is past the
\* retention window
Init ==
  /\ InitCommon
  /\ faults = MaxFaults
  /\ options = Options(0, 0, 0)
  /\ remote = [f \in FeedIds |-> Remote(TRUE, <<Item("g1", OldDate)>>)]
  /\ feedsCol = [f \in FeedIds |-> SeedFeed(f, f = 1)]

Next ==
  \/ \E p \in Procs : TimerTick(p)
  \/ \E p \in Procs : DirectCall(p)
  \/ \E p \in Procs : Refresh(p)
  \/ \E p \in Procs : ManualSync(p)
  \/ \E p \in Procs : ClearResync(p)
  \/ \E p \in Procs : ClearItems(p)
  \/ \E p \in Procs : ClearCounts(p)
  \/ \E p \in Procs : CycleStep(p)

Spec == Init /\ [][Next]_vars

\* SpecFault: cycles over two enabled feeds, one of which cannot be fetched,
\* run from both slots by the timer against a store that may throw
InitFault ==
  /\ InitCommon
  /\ faults = MaxFaults
  /\ options = Options(0, 0, 1)
  /\ remote = [f \in FeedIds |->
                 IF f = 1
                 THEN Remote(TRUE, <<Item("g1", OldDate), Item("g2", NoTime)>>)
                 ELSE Remote(FALSE, << >>)]
  /\ feedsCol = [f \in FeedIds |-> SeedFeed(f, f <= 2)]

NextFault ==
  \/ \E p \in Procs : TimerTick(p)
  \/ \E p \in Procs : CycleStep(p)
  \/ Tick

SpecFault == InitFault /\ [][NextFault]_vars

\* SpecLimit: one slot runs cycles over all the feeds under every concurrency
\* limit; a fetch may time out; feed 1 serves one item past the retention
\* window, the other payloads are empty
InitLimit ==
  /\ InitCommon
  /\ faults = MaxFaults
  /\ options \in {Options(0, m, 0) : m \in 0..NumFeeds}
  /\ remote = [f \in FeedIds |->
                 Remote(TRUE, IF f = 1 THEN <<Item("g1", OldDate)>> ELSE << >>)]
  /\ feedsCol = [f \in FeedIds |-> SeedFeed(f, TRUE)]

NextLimit ==
  \/ TimerTick(1)
  \/ CycleStep(1)
  \/ \E f \in FeedIds : FetchTimeout(1, f)

SpecLimit == InitLimit /\ [][NextLimit]_vars

RECURSIVE SeqsUpTo(_, _)
\* the sequences over S of length at most n
SeqsUpTo(S, n) ==
  IF n = 0 THEN {<< >>}
  ELSE LET shorter == SeqsUpTo(S, n - 1)
       IN shorter \cup {Append(q, x) : q \in shorter, x \in S}

Payloads == SeqsUpTo({Item(g, d) : g \in Guids, d \in PubDates}, MaxPayloadLen)

\* SpecTwice: one slot runs cycle after cycle at one instant against remote
\* feeds that never change: feed 1 serves any payload under any item cap,
\* feed 2 cannot be fetched, the other feeds serve one recent item
InitTwice ==
  /\ InitCommon
  /\ faults = 0
  /\ options \in {Options(cap, 0, 1) : cap \in {0, 1}}
  /\ \E pl \in Payloads :
       remote = [f \in FeedIds |->
                   IF f = 1 THEN Remote(TRUE, pl)
                   ELSE IF f = 2 THEN Remote(FALSE, << >>)
                   ELSE Remote(TRUE, <<Item("g1", StartTime - 1)>>)]
  /\ feedsCol = [f \in FeedIds |-> SeedFeed(f, TRUE)]

NextTwice ==
  \/ TimerTick(1)
  \/ CycleStep(1)

SpecTwice == InitTwice /\ [][NextTwice]_vars

\* SpecSeq: one slot runs cycles while the clock advances, a fetch may time
\* out, and feed 1 is switched off and on between the steps; feed 1 serves an
\* item past the retention window and an item without a date
InitSeq ==
  /\ InitCommon
  /\ faults = 0
  /\ options \in {Options(cap, 0, 1) : cap \in {0, 1}}
  /\ remote = [f \in FeedIds |->
                 IF f = 1
                 THEN Remote(TRUE, <<Item("g2", NoTime), Item("g1", OldDate)>>)
                 ELSE IF f = 2 THEN Remote(FALSE, << >>)
                 ELSE Remote(TRUE, <<Item("g1", StartTime - 1)>>)]
  /\ feedsCol = [f \in FeedIds |-> SeedFeed(f, TRUE)]

NextSeq ==
  \/ TimerTick(1)
  \/ CycleStep(1)
  \/ Tick
  \/ \E f \in FeedIds : FetchTimeout(1, f)
  \/ \E en \in BOOLEAN : ToggleFeed(1, en)

SpecSeq == InitSeq /\ [][NextSeq]_vars

\* SpecRace: slot 1 runs cycles over feed 1 while syncSingleFeed is called
\* for it, against a store that may throw; the feed serves one guid twice,
\* past the retention window
InitRace ==
  /\ InitCommon
  /\ faults = MaxFaults
  /\ options = Options(0, 0, 0)
  /\ remote = [f \in FeedIds |->
                 Remote(TRUE, <<Item("g1", OldDate), Item("g1", OldDate)>>)]
  /\ feedsCol = [f \in FeedIds |-> SeedFeed(f, f = 1)]

NextRace ==
  \/ TimerTick(1)
  \/ CycleStep(1)
  \/ StartSingle(1)
  \/ LookupFeed(1)
  \/ TaskStep(Single, 1)

SpecRace == InitRace /\ [][NextRace]_vars

(* ------------------------------ properties ---------------------------- *)
Counters(st) == <<st.feedsProcessed, st.itemsAdded>>

PrunePcs == {"prune", "prune_find", "prune_count", "prune_set"}

\* the number of syncFeed invocations of p that have started and not settled
Outstanding(p) == Cardinality({f \in FeedIds : InFlight(p, f)})

OneCycleAtATime == Cardinality({p \in Procs : InBody(p)}) <= 1

RejectedIsOver ==
  \A p \in Procs : cyc[p].result.msg = ErrInProgress => ~InBody(p)

EnterOnlyWhenIdle ==
  \A p \in Procs :
    (~InBody(p) /\ InBody(p)') =>
      (~syncState.syncing /\ \A q \in Procs : ~InBody(q))

\* C1: in every reachable state at most one invocation of runSync is between
\* syncing = true and its reset, whatever the interleaving of timer ticks,
\* direct calls, refresh, manual-sync and clear-resync requests; an invocation
\* enters the cycle only from a state in which none is running, and one that
\* was answered "Sync already in progress" is over and runs no cycle
C1_AtMostOneCycle ==
  [](OneCycleAtATime /\ RejectedIsOver) /\ [][EnterOnlyWhenIdle]_vars

\* a cycle is running and another invocation has been turned away
C1_Witness ==
  \E p, q \in Procs :
    /\ p # q
    /\ InBody(p)
    /\ cyc[q].pc = "idle"
    /\ cyc[q].result = ErrorResult(ErrInProgress)

C3_NeverStuck == syncState.syncing => \E p \in Procs : InBody(p)

\* C4: a cycle that starts after a cycle has run to completion against the
\* same remote payloads adds no item
C4_SecondRunAddsNothing ==
  \A p \in Procs :
    (cyc[p].pc = "idle" /\ cyc[p].result.type = "ok" /\ cyc[p].after)
      => cyc[p].result.itemsAdded = 0

OneRecordPerKey ==
  \A f \in FeedIds, g \in Guids : Cardinality(Matching(f, g)) <= 1

DuplicateKeySwallowed ==
  \A o \in Owners, f \in FeedIds :
    LET t == task[<<o, f>>]
    IN (/\ t.pc = "insert"
        /\ Matching(f, RecentItems(f)[t.idx].guid) # {}
        /\ task'[<<o, f>>] # t)
         => /\ task'[<<o, f>>] = NextItem(f, t)
            /\ itemsCol' = itemsCol

\* C5: in every reachable state rssItems holds at most one document for each
\* (feedId, guid), however a cycle and a syncSingleFeed of the same feed
\* interleave; an insert that finds its key stored meanwhile stores nothing
\* and the feed's loop goes on with the next item
C5_Dedup == []OneRecordPerKey /\ [][DuplicateKeySwallowed]_vars

\* syncSingleFeed is about to insert a key that the cycle stored after the
\* upsert had looked it up
C5_Witness ==
  /\ itemsUnique
  /\ InBody(1)
  /\ task[<<Single, 1>>].pc = "insert"
  /\ Matching(1, RecentItems(1)[task[<<Single, 1>>].idx].guid) # {}

RECURSIVE SumInserted(_, _)
\* the first-time inserts of the feeds fs of p that did not fail
SumInserted(p, fs) ==
  IF fs = << >> THEN 0
  ELSE (IF task[<<p, Head(fs)>>].err = NULL
        THEN task[<<p, Head(fs)>>].ins ELSE 0) + SumInserted(p, Tail(fs))

Isolated(p) ==
  cyc[p].pc \in PrunePcs =>
    /\ syncState.feedsProcessed = Len(cyc[p].feeds)
    /\ syncState.itemsAdded = SumInserted(p, cyc[p].feeds)
    /\ \A f \in Range(cyc[p].feeds) :
         LET t == task[<<p, f>>]
         IN /\ t.pc = "done"
            /\ t.err # NULL => feedsCol[f].lastError = t.err
            /\ (t.err = NULL /\ cyc[p].pc = "prune") =>
                 \A i \in 1..Len(RecentItems(f)) :
                   Matching(f, RecentItems(f)[i].guid) # {}

ResultIsolated ==
  \A p \in Procs :
    (cyc[p].pc \in PrunePcs /\ cyc'[p].pc = "idle") =>
      /\ cyc'[p].result.type = "ok"
      /\ cyc'[p].result.feedsProcessed = Len(cyc[p].feeds)
      /\ cyc'[p].result.itemsAdded = SumInserted(p, cyc[p].feeds)

\* C6: while the store answers, a cycle over N enabled feeds of which some
\* cannot be fetched counts feedsProcessed = N and itemsAdded = the first-time
\* inserts of the feeds that succeeded, and returns these; every failing feed
\* has its lastError set, and every other feed was fetched and its items are
\* stored
C6_PartialFailure == [](\A p \in Procs : Isolated(p)) /\ [][ResultIsolated]_vars

\* a cycle over three feeds has counted one failed feed and one new item
C6_Witness ==
  \E p \in Procs :
    /\ cyc[p].pc = "prune"
    /\ Len(cyc[p].feeds) = NumFeeds
    /\ syncState.itemsAdded > 0
    /\ \E f \in FeedIds : task[<<p, f>>].err # NULL
    /\ \E f \in FeedIds : task[<<p, f>>].err = NULL /\ task[<<p, f>>].ins > 0

\* C7: with a limit of at least 1, the syncFeed invocations that
\* processFeedsWithLimit has started and that have not settled never number
\* more than the limit, in whatever order they complete
C7_LimitRespected == MaxConcurrent >= 1 => Outstanding(1) <= MaxConcurrent

\* the limiter has refilled a freed place and waits with the limit reached
C7_Witness ==
  /\ cyc[1].pc = "race"
  /\ MaxConcurrent < NumFeeds
  /\ Outstanding(1) = MaxConcurrent
  /\ cyc[1].next > MaxConcurrent + 1

\* C8: a syncFeed invocation is in flight only while the cycle that launched
\* it awaits it: when a cycle leaves the syncing state, none of its tasks is
\* still running
C8_NoTaskOutlivesCycle ==
  \A p \in Procs, f \in FeedIds : InFlight(p, f) => cyc[p].pc \in {"race", "all"}

PrunePass ==
  \A p \in Procs :
    (cyc[p].pc = "prune" /\ cyc'[p].pc # "prune" /\ faults' = faults) =>
      /\ \A d \in itemsCol' : d.pubDate = NoTime \/ d.pubDate >= cyc[p].cutoff
      /\ \A d \in itemsCol : d.pubDate = NoTime => d \in itemsCol'
      /\ itemsCol' \subseteq itemsCol

\* C9: after the deleteMany of a prune pass that met no store error, no stored
\* item has a pubDate before the pass's cutoff (its now minus retentionDays),
\* and every item with a null pubDate stored before is still stored, for the
\* items of enabled and of disabled feeds alike
C9_PruneCorrect ==
  [](\A p \in Procs : cyc[p].pc = "prune" =>
        cyc[p].cutoff <= now - RetentionDays
        /\ cyc[p].cutoff >= now - RetentionDays - MaxTicks)
  /\ [][PrunePass]_vars

\* a pass has deleted items and an undated item of a disabled feed is stored
C9_Witness ==
  \E p \in Procs :
    /\ cyc[p].pc = "prune_find"
    /\ cyc[p].deleted > 0
    /\ \E d \in itemsCol : d.pubDate = NoTime /\ ~feedsCol[d.feedId].enabled

\* the catch block of the syncFeed of p for f, entered on a failed fetch,
\* completes in this step
CatchStep(p, f) ==
  /\ task[<<p, f>>].pc = "catch"
  /\ task[<<p, f>>].err = ErrFetch
  /\ task'[<<p, f>>].pc # "catch"

\* syncFeed has recorded the failure on the feed and returned it
Recovered(p, f) ==
  /\ feedsCol'[f].lastFetchedAt = now
  /\ feedsCol'[f].lastError = ErrFetch
  /\ InBody(p) =>
       /\ InBody(p)'
       /\ task'[<<p, f>>] = [task[<<p, f>>] EXCEPT !.pc = "done", !.ret = 0]

\* C10 (as stated): whenever the fetch of a feed fails inside syncFeed, the
\* feed gets lastFetchedAt = now and lastError = the message, and syncFeed
\* returns {feedId, itemsAdded: 0, error} instead of raising
C10_NeverRaises ==
  [][\A p \in Procs, f \in FeedIds : CatchStep(p, f) => Recovered(p, f)]_vars

\* C10 (amended): when the fetch of a feed fails inside syncFeed and the update
\* of the feed document succeeds, the feed gets lastFetchedAt = now and
\* lastError = the message and syncFeed returns {feedId, itemsAdded: 0, error};
\* when that update throws, the feed document is left as it was and syncFeed
\* rejects, which ends the cycle awaiting it with the store's error
C10_RecoveredWhileStoreAnswers ==
  [][\A p \in Procs, f \in FeedIds :
       CatchStep(p, f) =>
         IF faults' = faults THEN Recovered(p, f)
         ELSE /\ feedsCol' = feedsCol
              /\ InBody(p) =>
                   /\ ~InBody(p)'
                   /\ cyc'[p].result = ErrorResult(ErrStore)
                   /\ syncState'.lastError = ErrStore
                   /\ ~syncState'.syncing]_vars

\* a failed fetch has been recorded on the feed, after the clock has moved
C10_Witness ==
  \E p \in Procs, f \in FeedIds :
    /\ InBody(p)
    /\ now > StartTime
    /\ task[<<p, f>>].pc = "done"
    /\ task[<<p, f>>].ret = 0
    /\ task[<<p, f>>].err = ErrFetch
    /\ feedsCol[f].lastError = ErrFetch
    /\ feedsCol[f].lastFetchedAt = now

\* the feed document d2 differs from d1 in lastFetchedAt and lastError at most
OnlyErrorFields(d1, d2) ==
  [d2 EXCEPT !.lastFetchedAt = d1.lastFetchedAt, !.lastError = d1.lastError] = d1

\* a step of the syncFeed of o for f on its failed-fetch path: the fetch fails,
\* or the catch block entered on a failed fetch completes
FailedFetchStep(o, f) ==
  LET t == task[<<o, f>>]
  IN /\ task'[<<o, f>>] # t
     /\ \/ t.pc = "fetch" /\ task'[<<o, f>>].pc = "catch"
        \/ t.pc = "catch" /\ t.err = ErrFetch

\* C11: a syncFeed whose fetch fails stores, changes and deletes no item, and
\* changes nothing on its feed document but lastFetchedAt and lastError; no
\* other feed document changes, and the call has inserted nothing when it ends
C11_FailedFetchFrame ==
  [][\A o \in Owners, f \in FeedIds :
       FailedFetchStep(o, f) =>
         /\ itemsCol' = itemsCol
         /\ OnlyErrorFields(feedsCol[f], feedsCol'[f])
         /\ \A g \in FeedIds \ {f} : feedsCol'[g] = feedsCol[g]
         /\ task[<<o, f>>].ins = 0 /\ task[<<o, f>>].added = 0]_vars

\* a failed fetch has been recorded on a feed that keeps its cached item, its
\* fetched title and its item count
C11_Witness ==
  \E p \in Procs, f \in FeedIds :
    /\ task[<<p, f>>].pc = "done"
    /\ task[<<p, f>>].err = ErrFetch
    /\ feedsCol[f].lastError = ErrFetch
    /\ feedsCol[f].title = "fetched"
    /\ feedsCol[f].itemCount > 0
    /\ CountDocuments(f) = feedsCol[f].itemCount

\* SpecChange: slot 1 runs cycles over feed 1 while the remote feed changes
\* its title and items between fetches, or stops answering, and the clock
\* advances; the item cap is 1 or the default, items are kept for one day
InitChange ==
  /\ InitCommon
  /\ faults = 0
  /\ options \in {Options(cap, 0, 1) : cap \in {0, 1}}
  /\ remote = [f \in FeedIds |-> Remote(TRUE, <<Item("g1", StartTime - 1)>>)]
  /\ feedsCol = [f \in FeedIds |-> SeedFeed(f, f = 1)]

NextChange ==
  \/ TimerTick(1)
  \/ CycleStep(1)
  \/ RemoteChange(1)
  \/ Tick

SpecChange == InitChange /\ [][NextChange]_vars

\* d and e are the same stored record
SameRecord(d, e) ==
  d.feedId = e.feedId /\ d.guid = e.guid /\ d.copy = e.copy

\* C12: a stored item record is never changed by a sync operation: in every
\* step, a record that is stored before and after the step is equal in every
\* field, fetchedAt and feedTitle included, whatever the remote feed serves
\* for its guid by then
C12_ItemsImmutable ==
  [][\A d \in itemsCol : \A e \in itemsCol' : SameRecord(d, e) => e = d]_vars

\* a sync has run past a stored item whose feed has since been renamed and
\* refreshed at a later time
C12_Witness ==
  \E d \in itemsCol :
    /\ d.feedTitle # feedsCol[d.feedId].title
    /\ d.fetchedAt < feedsCol[d.feedId].lastFetchedAt
    /\ \E p \in Procs :
         task[<<p, d.feedId>>].pc = "count" /\ task[<<p, d.feedId>>].added = 0

\* C13: a runSync call that the guard turns away, for want of a usable
\* database or because a cycle is in progress, leaves every field of
\* syncState as it was
C13_GuardTouchesNothing ==
  [][\A p \in Procs, db \in DbArgs, optsOk \in BOOLEAN :
       (/\ Free(p)
        /\ Guard(db, syncState.syncing) # "go"
        /\ RunSyncCall(p, Called(p), db, optsOk))
         => syncState' = syncState]_vars

(* ------------------ feeds are added while cycles run ------------------ *)
InitAdd ==
  /\ InitCommon
  /\ faults = 0
  /\ options = Options(1, 0, 1)
  /\ remote = [f \in FeedIds |->
                 IF f = 2 THEN Remote(FALSE, << >>)
                 ELSE Remote(TRUE, <<Item("g1", OldDate)>>)]
  /\ feedsCol = [f \in FeedIds |-> NewFeed(FALSE)]

AddStep(p) ==
  \/ \E raw \in RawUrls : AddFeed(p, raw)
  \/ AddFind(p)
  \/ AddFetch(p)
  \/ AddInsert(p)

NextAdd ==
  \/ \E p \in Procs : AddStep(p)
  \/ TimerTick(1)
  \/ CycleStep(1)

SpecAdd == InitAdd /\ [][NextAdd]_vars

\* the add request p gets the answer of its lookup in this step
LookupAnswered(p) == cyc[p].pc = "add_find" /\ cyc'[p].pc # "add_find"

\* a feed document with the normalized url of request p is stored
UrlIsStored(p) == \E f \in FeedIds : feedsCol[f].url = cyc[p].url

\* C14: an add request whose normalized url is the url of a stored feed is
\* answered 409 (feed exists) by its lookup: it never reaches the network
\* fetch, and no feed document is inserted or modified.
C14_DuplicateAddRejected ==
  [][\A p \in Procs :
       LookupAnswered(p) /\ UrlIsStored(p) =>
         /\ cyc'[p].pc = "idle"
         /\ cyc'[p].result = HttpResult(ErrFeedExists)
         /\ feedsCol' = feedsCol]_vars

\* a request for a stored url was answered 409 while the collection holds
\* that url exactly once, and another request is about to insert a new url
C14_Witness ==
  \E p \in Procs : \E q \in Procs \ {p} :
    /\ cyc[p].result = HttpResult(ErrFeedExists)
    /\ Cardinality(FindByUrl(feedsCol, "http://a/feed")) = 1
    /\ cyc[q].pc = "add_insert"
    /\ cyc[q].url = "http://b/"

\* invocation p enters the try block of runSync in this step
CycleStarts(p) == cyc[p].pc = "idle" /\ cyc'[p].pc = "indexes"

\* the list of enabled feeds reaches invocation p in this step and is empty
EmptyListLoaded(p) ==
  /\ cyc[p].pc = "load" /\ cyc'[p].pc # "load"
  /\ \A f \in FeedIds : ~feedsCol[f].enabled

\* C15: a cycle that finds no enabled feed returns {feedsProcessed: 0,
\* itemsAdded: 0} without an error; the state went from idle to syncing when
\* the cycle started and goes back to idle when it returns, with lastSync
\* the time of the return and lastError null.
C15_EmptyCycle ==
  [][\A p \in Procs :
       /\ CycleStarts(p) => ~syncState.syncing /\ syncState'.syncing
       /\ EmptyListLoaded(p) =>
            /\ syncState.syncing /\ ~syncState'.syncing
            /\ cyc'[p].pc = "idle"
            /\ cyc'[p].result = OkResult(0, 0, Absent)
            /\ syncState'.lastSync = now
            /\ syncState'.lastError = NULL
            /\ syncState'.feedsProcessed = 0 /\ syncState'.itemsAdded = 0]_vars

\* a cycle over an empty feed collection has returned its zero counters
\* while an add request is fetching its feed
C15_Witness ==
  /\ cyc[1].result = OkResult(0, 0, Absent)
  /\ syncState = [InitSyncState EXCEPT !.lastSync = now]
  /\ StoredFeeds = {}
  /\ \E p \in Procs : cyc[p].pc = "add_fetch"

\* a store operation awaited by the body of runSync itself (createIndexes,
\* find, or a feed task whose catch block threw) fails for invocation p
Escapes(p) ==
  /\ InBody(p)
  /\ cyc[p].pc \notin PrunePcs
  /\ faults' # faults
  /\ cyc'[p] # cyc[p]

\* runSync returned {error: m}: its promise resolved, it did not reject
ReturnedError(p, m) == cyc'[p].pc = "idle" /\ cyc'[p].result = ErrorResult(m)

\* C16: an exception that escapes the per-feed boundary (index creation,
\* loading the feed list, a feed task that rejects) makes runSync return
\* {error: message} instead of throwing; lastError is that message, lastSync
\* keeps its previous value and syncing is false, so a later cycle can start.
C16_CycleCatches ==
  [][\A p \in Procs :
       /\ Escapes(p) => ReturnedError(p, ErrStore)
       /\ InBody(p) /\ ~InBody(p)' /\ cyc'[p].result.type # "ok" =>
            /\ ReturnedError(p, ErrStore)
            /\ syncState'.lastError = ErrStore
            /\ syncState'.lastSync = syncState.lastSync
            /\ ~syncState'.syncing]_vars

\* a cycle has failed after an earlier one completed: the error is recorded,
\* lastSync is still the earlier completion time, and the state is idle
C16_Witness ==
  \E p \in Procs :
    /\ cyc[p].result = ErrorResult(ErrStore)
    /\ syncState.lastError = ErrStore
    /\ syncState.lastSync # NoTime /\ syncState.lastSync < now
    /\ ~syncState.syncing

(* --------------- the status is read while a cycle runs ---------------- *)
InitStatus ==
  /\ InitCommon
  /\ faults = 0
  /\ options = Options(1, 0, 1)
  /\ remote = [f \in FeedIds |->
                 IF f = 1 THEN Remote(TRUE, <<Item("g1", OldDate)>>)
                 ELSE IF f = 2 THEN Remote(FALSE, << >>)
                 ELSE Remote(TRUE, <<Item("g1", StartTime - 1)>>)]
  /\ feedsCol = [f \in FeedIds |-> SeedFeed(f, TRUE)]

NextStatus ==
  \/ TimerTick(1)
  \/ CycleStep(1)
  \/ StatusRequest(2)
  \/ StatusRespond(2)
  \/ MutateSnapshot(2)

SpecStatus == InitStatus /\ [][NextStatus]_vars

\* invocation p takes a snapshot in this step
SnapshotTaken(p) ==
  /\ cyc[p].pc = "idle" /\ cyc'[p] # cyc[p]
  /\ cyc'[p].pc = "status" \/ cyc'[p].result.type = "status"

\* the holder p of a snapshot writes into it in this step
SnapshotWritten(p) == cyc[p].pc = "status" /\ cyc'[p].snap # cyc[p].snap

\* the counters of a running cycle are zero, or the totals of all its feeds
ZeroOrTotals ==
  syncState.syncing =>
    \/ Counters(syncState) = <<0, 0>>
    \/ \E p \in Procs :
         /\ cyc[p].pc \in PrunePcs
         /\ Counters(syncState) =
              <<Len(cyc[p].feeds), SumInserted(p, cyc[p].feeds)>>

\* C17: the object getSyncState returns has the values of the engine state
\* of that moment and is a copy: writing into it leaves the engine state as
\* it was. No snapshot is half-updated: when a cycle returns its counters the
\* state has syncing = false and exactly these counters, which stay until
\* the next cycle starts; while syncing is true the counters are zero or the
\* final totals of the cycle, never a partial sum.
C17_SnapshotIsCopy ==
  /\ []ZeroOrTotals
  /\ [][\A p \in Procs :
          /\ SnapshotTaken(p) => cyc'[p].snap = syncState
          /\ SnapshotWritten(p) => syncState' = syncState
          /\ cyc'[p].result.type = "status" /\ cyc[p].pc = "status" =>
               cyc'[p].result = StatusResult(cyc[p].snap)
          /\ InBody(p) /\ cyc'[p].result.type = "ok" =>
               /\ ~syncState'.syncing
               /\ Counters(syncState') =
                    <<cyc'[p].result.feedsProcessed, cyc'[p].result.itemsAdded>>
          /\ ~syncState.syncing /\ ~syncState'.syncing =>
               Counters(syncState') = Counters(syncState)]_vars

\* a snapshot taken while the cycle was running has been written into by its
\* holder after the cycle completed with the totals of three feeds
C17_Witness ==
  /\ cyc[2].pc = "status"
  /\ cyc[2].snap.lastError = MsgMutated
  /\ ~cyc[2].snap.syncing
  /\ cyc[2].snap.itemsAdded = 1
  /\ ~syncState.syncing
  /\ Counters(syncState) = <<NumFeeds, 2>>

\* C18: in every reachable state the number of stored items of a feed is at
\* most maxItemsPerFeed, also when the remote content changes between cycles.
C18_StoredWithinCap ==
  \A f \in FeedIds : CountDocuments(f) <= MaxItemsPerFeed

\* C19: the itemsAdded value a syncFeed call returns is the number of
\* (feedId, guid) keys that this call inserted for the first time.
C19_CountsFirstInserts ==
  \A o \in Owners, f \in FeedIds :
    task[<<o, f>>].pc = "done" => task[<<o, f>>].ret = task[<<o, f>>].ins

\* the results Promise.all gave the cycle of p, one per feed in input order,
\* each from the only invocation of the processor for that feed
AlignedResults(p) ==
  cyc[p].pc \in PrunePcs =>
    /\ Len(cyc[p].results) = Len(cyc[p].feeds)
    /\ \A i \in 1..Len(cyc[p].feeds) :
         /\ cyc[p].results[i].feedId = cyc[p].feeds[i]
         /\ cyc[p].results[i] =
              TaskResult(cyc[p].feeds[i], task[<<p, cyc[p].feeds[i]>>])
         /\ task[<<p, cyc[p].feeds[i]>>].runs = 1

\* no feed is processed twice, and none that is not in the input
OncePerFeed(p) ==
  \A f \in FeedIds :
    /\ task[<<p, f>>].runs <= 1
    /\ task[<<p, f>>].runs = 1 => f \in Range(cyc[p].feeds)

\* C20: processFeedsWithLimit invokes the processor exactly once for every
\* input feed and returns one result per feed, result i being the result of
\* feed i whatever the order of completion; a feed whose result carries an
\* error does not stop the remaining feeds from being processed.
C20_ResultsAligned == \A p \in Procs : AlignedResults(p) /\ OncePerFeed(p)

\* with two places, the first feed failed, the feeds after it were still
\* processed, and the results are those of the three feeds in input order
C20_Witness ==
  /\ cyc[1].pc = "prune"
  /\ MaxConcurrent = 2
  /\ Len(cyc[1].results) = NumFeeds
  /\ cyc[1].results[1].error = ErrFetch
  /\ \A i \in 2..NumFeeds : cyc[1].results[i].error = NULL
  /\ itemsCol = {}

(* ------------------------------ RssClient ----------------------------- *)
\* Strings that the client searches are sequences of tokens; a marker is a
\* sequence of tokens as well.
\* an absent property of a JSON or XML object
Undef == "undefined"

\* a date string that new Date() cannot parse
Unparsable == 0 - 2

\* JavaScript truthiness of a string property
Truthy(v) == v \notin {Undef, ""}

\* a || b on string properties
OrElse(a, b) == IF Truthy(a) THEN a ELSE b

\* a || null
OrNull(a) == IF Truthy(a) THEN a ELSE NULL

\* String.prototype.includes
Includes(str, marker) ==
  \E i \in 1..(Len(str) - Len(marker) + 1) :
    SubSeq(str, i, i + Len(marker) - 1) = marker

\* String.prototype.startsWith
StartsWith(str, marker) ==
  Len(str) >= Len(marker) /\ SubSeq(str, 1, Len(marker)) = marker

RECURSIVE Join(_)
\* the string made of the tokens
Join(tokens) ==
  IF tokens = << >> THEN "" ELSE Head(tokens) \o Join(Tail(tokens))

\* Array.prototype.filter, Keep(x) being the predicate: the elements that
\* pass, in the order of the input
Filter(xs, Keep(_)) ==
  LET kept == {i \in 1..Len(xs) : Keep(xs[i])}
      Nth(k) == CHOOSE i \in kept : Cardinality({j \in kept : j < i}) = k - 1
  IN [k \in 1..Cardinality(kept) |-> xs[Nth(k)]]

GoogleState == <<"state/", "com.google/">>
FreshRssState == <<"state/", "org.freshrss/">>
UserPrefix == <<"user/">>

\* variant: only the Google state marker is filtered out
KeepCategoryGoogleOnly(cat) == ~Includes(cat, GoogleState)

\* the filter predicate of parseGoogleReaderJson on item.categories
KeepCategory(cat) ==
  /\ ~Includes(cat, GoogleState)
  /\ ~Includes(cat, FreshRssState)
  /\ ~StartsWith(cat, UserPrefix)

\* an item of a fetched document before normalization; the properties the
\* three dialects name differently are kept under one name:
\*   id (frss:id, id), guid, link (canonical, alternate, link, url),
\*   date (published, pubDate, date_published),
\*   date2 (timestampUsec, isoDate, date_modified), origin (origin.title)
\* a JSON value read as a timestamp: a missing property, a number, a string
\* of digits, a string of other text, the empty string
JsUndefined == [t |-> "undefined", n |-> 0]
JsNumber(n) == [t |-> "number", n |-> n]
JsDigits(n) == [t |-> "digits", n |-> n]
JsText == [t |-> "text", n |-> 0]
JsEmpty == [t |-> "empty", n |-> 0]

\* NaN, and the time value of an Invalid Date
NaN == Unparsable

\* truthiness of a JSON value
JsTruthy(x) ==
  CASE x.t = "undefined" -> FALSE
    [] x.t = "number" -> x.n # 0
    [] x.t = "empty" -> FALSE
    [] OTHER -> TRUE

\* ToNumber(x), as the operator * applies it
ToNumber(x) ==
  CASE x.t \in {"number", "digits"} -> x.n
    [] x.t = "empty" -> 0
    [] OTHER -> NaN

\* parseInt(x)
parseInt(x) == IF x.t \in {"number", "digits"} THEN x.n ELSE NaN

\* new Date(ms): an Invalid Date for NaN, the time value truncated otherwise
NewDate(ms) == IF ms = NaN THEN Unparsable ELSE ms

\* a * k and a / k on numbers, truncated as new Date does
Times(a, k) == IF a = NaN THEN NaN ELSE a * k
DivBy(a, k) == IF a = NaN THEN NaN ELSE a \div k

BlankItem ==
  [id |-> Undef, guid |-> Undef, link |-> Undef, author |-> Undef,
   hasOrigin |-> FALSE, origin |-> Undef, categories |-> << >>,
   date |-> NoTime, date2 |-> NoTime,
   published |-> JsUndefined, timestampUsec |-> JsUndefined,
   crawlTimeMsec |-> JsUndefined,
   originStreamId |-> Undef, originHtmlUrl |-> Undef, originFeedUrl |-> Undef,
   image |-> Undef, banner |-> Undef, media |-> Undef, mediaContent |-> Undef,
   mediaThumbnail |-> Undef, enclosure |-> << >>, content |-> << >>]

\* the image properties of a raw item:
\*   image (image), banner (banner_image),
\*   media (media.$.url), mediaContent (media:content.$.url),
\*   mediaThumbnail (media:thumbnail.$.url, mediaThumbnail.$.url),
\*   enclosure (the tokens of enclosure.href or enclosure.url, << >> if none),
\*   content (the tags of the resolved content string, with their src)

\* url.toLowerCase(), token by token
LowerToken(tok) ==
  CASE tok = ".PNG" -> ".png"
    [] tok = ".JPG" -> ".jpg"
    [] OTHER -> tok
ToLowerCase(url) == [i \in 1..Len(url) |-> LowerToken(url[i])]

ImageExtensions == {".jpg", ".jpeg", ".png", ".gif", ".webp", ".svg"}

\* isImageUrl(url)
isImageUrl(url) ==
  /\ url # << >>
  /\ \E ext \in ImageExtensions : Includes(ToLowerCase(url), <<ext>>)

\* content.match(/<img[^>]+src=["']([^"']+)["']/i): the src of the first img
\* tag that has one, or null
ImgTags(content) ==
  {i \in 1..Len(content) : content[i].tag = "img" /\ Truthy(content[i].src)}
FirstImg(content) ==
  IF ImgTags(content) = {} THEN NULL
  ELSE content[CHOOSE i \in ImgTags(content) :
                 \A j \in ImgTags(content) : i <= j].src

\* the enclosure and content steps shared by both extractors
EnclosureOrImg(item) ==
  IF isImageUrl(item.enclosure) THEN Join(item.enclosure)
  ELSE FirstImg(item.content)

\* extractJsonItemImage(item, content)
extractJsonItemImage(item) ==
  IF Truthy(item.image) THEN item.image
  ELSE IF Truthy(item.media) THEN item.media
  ELSE IF Truthy(item.mediaContent) THEN item.mediaContent
  ELSE IF Truthy(item.mediaThumbnail) THEN item.mediaThumbnail
  ELSE EnclosureOrImg(item)

\* extractItemImage(item)
extractItemImage(item) ==
  IF Truthy(item.media) THEN item.media
  ELSE IF Truthy(item.mediaThumbnail) THEN item.mediaThumbnail
  ELSE EnclosureOrImg(item)

\* imageUrl of a JSON Feed item: item.image || item.banner_image || null
JsonFeedImage(item) == OrNull(OrElse(item.image, item.banner))

\* pubDate of an aggregator-JSON item
GoogleReaderDate(item) ==
  IF JsTruthy(item.published) THEN NewDate(Times(ToNumber(item.published), 1000))
  ELSE IF JsTruthy(item.timestampUsec)
  THEN NewDate(DivBy(parseInt(item.timestampUsec), 1000))
  ELSE IF JsTruthy(item.crawlTimeMsec) THEN NewDate(parseInt(item.crawlTimeMsec))
  ELSE NoTime

\* variant: the title of the origin stands in for a missing author
AuthorOrOrigin(item) == OrNull(OrElse(item.author, item.origin))

\* author: item.author || null
AuthorOf(item) == OrNull(item.author)

\* origin: null, written as a record of nulls so that it compares with the
\* copied object
NullOrigin == [streamId |-> NULL, title |-> NULL, htmlUrl |-> NULL, feedUrl |-> NULL]

\* origin: item.origin ? {streamId, title, htmlUrl, feedUrl} : null
OriginOf(item) ==
  IF item.hasOrigin
  THEN [streamId |-> item.originStreamId, title |-> item.origin,
        htmlUrl |-> item.originHtmlUrl, feedUrl |-> item.originFeedUrl]
  ELSE NullOrigin

\* variant: the url of the origin's feed stands in for the url of its site
SourceUrlFromFeed(item) ==
  IF item.hasOrigin THEN OrNull(item.originFeedUrl) ELSE NULL

\* sourceTitle: item.origin?.title || null; sourceUrl: item.origin?.htmlUrl || null
SourceTitle(item) == IF item.hasOrigin THEN OrNull(item.origin) ELSE NULL
SourceUrl(item) == IF item.hasOrigin THEN OrNull(item.originHtmlUrl) ELSE NULL

\* one entry of the items array parseGoogleReaderJson returns
GoogleReaderItem(item) ==
  [guid |-> OrNull(OrElse(item.id, OrElse(item.guid, item.link))),
   link |-> OrNull(item.link),
   author |-> AuthorOf(item),
   pubDate |-> GoogleReaderDate(item),
   imageUrl |-> extractJsonItemImage(item),
   categories |-> Filter(item.categories, KeepCategory),
   origin |-> OriginOf(item),
   sourceTitle |-> SourceTitle(item),
   sourceUrl |-> SourceUrl(item)]

\* Date.prototype.getTime() of a parsed date, or undefined, as `${...}` prints it
TimeText(d) == IF d = NoTime THEN Undef ELSE ToString(d)

\* `${feedUrl}#${pubDate?.getTime()}`
SynthGuid(feedUrl, pubDate) == Join(feedUrl) \o "#" \o TimeText(pubDate)

\* variant: the date is used as given, without the check for an invalid date
parseDateUnchecked(dateInput) == dateInput

\* parseDate(dateInput): null for a missing value and for an invalid date
parseDate(dateInput) ==
  IF dateInput = NoTime \/ dateInput = Unparsable THEN NoTime ELSE dateInput

\* a || b on two date properties
DateOr(a, b) == IF a # NoTime THEN a ELSE b

\* transformItem(item, feedUrl) of the syndication-XML path
transformItem(item, feedUrl) ==
  LET pubDate == parseDate(DateOr(item.date, item.date2))
      own == OrElse(item.guid, OrElse(item.id, item.link))
  IN [guid |-> IF Truthy(own) THEN own ELSE SynthGuid(feedUrl, pubDate),
      link |-> OrNull(item.link),
      author |-> OrNull(item.author),
      pubDate |-> pubDate,
      imageUrl |-> extractItemImage(item),
      categories |-> item.categories,
      sourceTitle |-> NULL]

\* one entry of the items array parseJsonFeedSpec returns
JsonFeedItem(item) ==
  [guid |-> OrElse(item.id, item.link),
   link |-> OrNull(item.link),
   author |-> OrNull(item.author),
   pubDate |-> parseDate(DateOr(item.date, item.date2)),
   imageUrl |-> JsonFeedImage(item),
   categories |-> item.categories,
   sourceTitle |-> NULL]

\* what a parser returned, or the error it threw; ranJson and ranXml tell
\* whether JSON.parse and parser.parseString were called
Parsed(via, title, items) ==
  [ok |-> TRUE, via |-> via, err |-> NULL, title |-> title, items |-> items,
   ranJson |-> FALSE, ranXml |-> FALSE]

Thrown(e) ==
  [ok |-> FALSE, via |-> "none", err |-> e, title |-> NULL, items |-> << >>,
   ranJson |-> FALSE, ranXml |-> FALSE]

ErrUnknownJson == "Unknown JSON feed format"
ErrTypeError == "TypeError"
ErrJsonSyntax == "SyntaxError"
ErrXmlSyntax == "Non-whitespace before first tag"
ErrHttp == "HTTP 500"

\* (json.items || []).map(...) throws when items is neither absent nor an array
MapItems(json, via, title, Each(_)) ==
  IF json.itemsKind = "string" THEN Thrown(ErrTypeError)
  ELSE Parsed(via, title, [i \in 1..Len(json.items) |-> Each(json.items[i])])

parseGoogleReaderJson(json, feedUrl) ==
  MapItems(json, "greader", OrElse(json.title, "RSS Feed"), GoogleReaderItem)

parseJsonFeedSpec(json, feedUrl) ==
  MapItems(json, "jsonfeed", OrElse(json.title, "Untitled Feed"), JsonFeedItem)

JsonFeedUri == <<"https://jsonfeed.org/">>

\* truthiness of json.version and of json.items
VersionTruthy(json) ==
  \/ json.version.t = "string" /\ json.version.v # << >>
  \/ json.version.t = "number" /\ json.version.v # <<"0">>

ItemsTruthy(json) == json.itemsKind \in {"array", "string"}

\* parseJsonFeed(json, feedUrl); json.version?.startsWith is not a function
\* when version is a number, and json.items throws when json is null
parseJsonFeed(json, feedUrl) ==
  IF json.root = "null" THEN Thrown(ErrTypeError)
  ELSE IF ItemsTruthy(json) /\ ~VersionTruthy(json)
  THEN parseGoogleReaderJson(json, feedUrl)
  ELSE IF json.version.t = "number" THEN Thrown(ErrTypeError)
  ELSE IF json.version.t = "string" /\ StartsWith(json.version.v, JsonFeedUri)
  THEN parseJsonFeedSpec(json, feedUrl)
  ELSE IF json.itemsKind = "array" THEN parseGoogleReaderJson(json, feedUrl)
  ELSE Thrown(ErrUnknownJson)

\* the condition under which fetchFeed tries JSON first
JsonFirst(contentType, url) ==
  \/ Includes(contentType, <<"application/json">>)
  \/ Includes(contentType, <<"application/feed+json">>)
  \/ Includes(url, <<"f=greader">>)
  \/ Includes(url, <<"f=json">>)

\* JSON.parse(text) followed by parseJsonFeed, inside one try block
TryJson(resp) ==
  IF resp.body.kind = "json" THEN parseJsonFeed(resp.body.doc, resp.url)
  ELSE Thrown(ErrJsonSyntax)

\* parser.parseString(text), extractFeedMeta and transformItems
ParseXml(resp) ==
  LET doc == resp.body.doc
      Each(item) == transformItem(item, resp.url)
  IN IF resp.body.kind = "xml"
     THEN [Parsed("xml", OrElse(doc.title, "Untitled Feed"),
                  [i \in 1..Len(doc.items) |-> Each(doc.items[i])])
             EXCEPT !.ranXml = TRUE]
     ELSE [Thrown(ErrXmlSyntax) EXCEPT !.ranXml = TRUE]

\* fetchFeed(url) from the arrival of the response on
fetchFeed(resp) ==
  IF ~resp.ok THEN Thrown(ErrHttp)
  ELSE IF JsonFirst(resp.contentType, resp.url)
  THEN IF TryJson(resp).ok THEN [TryJson(resp) EXCEPT !.ranJson = TRUE]
       ELSE [ParseXml(resp) EXCEPT !.ranJson = TRUE]
  ELSE ParseXml(resp)

(* ------------------- the responses a client is given ------------------ *)
PlainUrl == <<"http://h/feed">>
GReaderUrl == <<"http://h/api?", "f=greader">>
JsonUrl == <<"http://h/feed?", "f=json">>
Urls == {PlainUrl, GReaderUrl, JsonUrl}

ContentTypes ==
  {<<"application/json">>, <<"application/feed+json", "; charset=utf-8">>,
   <<"text/xml">>, <<"application/rss+xml">>, << >>}

NoVersion == [t |-> "undefined", v |-> << >>]
JsonFeedVersion == [t |-> "string", v |-> <<"https://jsonfeed.org/", "version/1.1">>]
Versions ==
  {NoVersion, JsonFeedVersion, [t |-> "string", v |-> <<"2.0">>],
   [t |-> "string", v |-> << >>], [t |-> "number", v |-> <<"1">>],
   [t |-> "number", v |-> <<"0">>]}

Categories ==
  {<<"state/", "com.google/", "read">>,
   <<"user/", "-/", "state/", "com.google/", "starred">>,
   <<"state/", "org.freshrss/", "main">>,
   <<"user/", "1/", "label/", "news">>,
   <<"x/", "state/", "com.google/", "y">>,
   <<"my/", "user/", "tag">>,
   <<"state/", "of/", "the/", "art">>,
   <<"news">>}

Doc(version, itemsKind, items) ==
  [root |-> "object", version |-> version, itemsKind |-> itemsKind,
   items |-> items, title |-> "Blog"]

Response(contentType, url, kind, doc) ==
  [ok |-> TRUE, contentType |-> contentType, url |-> url,
   body |-> [kind |-> kind, doc |-> doc]]

\* aggregator-JSON documents with one item: every list of categories, with
\* and without an author and an origin
GoogleReaderResponses ==
  {Response(<<"application/json">>, GReaderUrl, "json",
            Doc(NoVersion, "array",
                <<[BlankItem EXCEPT !.id = "tag:1", !.categories = cats,
                                    !.author = a, !.hasOrigin = (o # Undef),
                                    !.origin = o,
                                    !.published = JsNumber(StartTime - 1)]>>)) :
     cats \in SeqsUpTo(Categories, MaxPayloadLen),
     a \in {Undef, "", "alice"},
     o \in {Undef, "Upstream Blog"}}

\* the items of a syndication-XML document: with and without a guid and a
\* link, with a missing, an invalid and a valid pubDate, with and without
\* an isoDate
XmlItems ==
  {[BlankItem EXCEPT !.guid = g, !.link = l, !.date = d, !.date2 = iso] :
     g \in {Undef, "g1"}, l \in {Undef, "http://h/1"},
     d \in {NoTime, Unparsable, StartTime - 1}, iso \in {NoTime, StartTime - 2}}

XmlResponses ==
  {Response(<<"application/rss+xml">>, PlainUrl, "xml", Doc(NoVersion, "array", items)) :
     items \in SeqsUpTo(XmlItems, MaxPayloadLen)}

\* one item with an id, for the documents whose shape is what matters
PlainItems ==
  <<[BlankItem EXCEPT !.id = "tag:1", !.date = StartTime - 1,
                      !.published = JsNumber(StartTime - 1)]>>

\* the JSON texts: null, and objects with every version value and an items
\* property that is absent, an array or a string
JsonDocs ==
  {[Doc(NoVersion, "absent", << >>) EXCEPT !.root = "null"]}
    \cup {Doc(v, k, IF k = "array" THEN PlainItems ELSE << >>) :
            v \in Versions, k \in {"absent", "array", "string"}}

\* the bodies of a response: JSON text, XML text, and text that is neither
Bodies ==
  {[kind |-> "json", doc |-> d] : d \in JsonDocs}
    \cup {[kind |-> k, doc |-> Doc(NoVersion, "array", PlainItems)] :
            k \in {"xml", "junk"}}

\* every content type and url with every body, and an HTTP error
AnyResponses ==
  {[ok |-> TRUE, contentType |-> ct, url |-> u, body |-> b] :
     ct \in ContentTypes, u \in Urls, b \in Bodies}
    \cup {[Response(<<"text/xml">>, PlainUrl, "xml",
                     Doc(NoVersion, "array", PlainItems)) EXCEPT !.ok = FALSE]}

\* the timestamp properties of an aggregator-JSON item: published in
\* seconds, timestampUsec in microseconds, crawlTimeMsec in milliseconds
PublishedValues ==
  {JsUndefined, JsNumber(0), JsNumber(StartTime - 1), JsDigits(StartTime - 1), JsText}
TimestampUsecValues ==
  {JsUndefined, JsDigits((StartTime - 2) * 1000000 + 500), JsText, JsEmpty}
CrawlTimeMsecValues == {JsUndefined, JsDigits((StartTime - 3) * 1000 + 1), JsText}

\* aggregator-JSON documents with one item and every combination of the
\* timestamp properties
TimestampResponses ==
  {Response(<<"application/json">>, GReaderUrl, "json",
            Doc(NoVersion, "array",
                <<[BlankItem EXCEPT !.id = "tag:1", !.published = p,
                                    !.timestampUsec = u,
                                    !.crawlTimeMsec = c]>>)) :
     p \in PublishedValues, u \in TimestampUsecValues,
     c \in CrawlTimeMsecValues}

\* aggregator-JSON documents with one item: without an origin, and with an
\* origin whose properties are missing, empty or set
OriginResponses ==
  {Response(<<"application/json">>, GReaderUrl, "json",
            Doc(NoVersion, "array",
                <<[BlankItem EXCEPT !.id = "tag:1", !.hasOrigin = h,
                                    !.origin = t, !.originHtmlUrl = u,
                                    !.originStreamId = sid,
                                    !.originFeedUrl = fu]>>)) :
     h \in BOOLEAN, t \in {Undef, "", "Upstream Blog"},
     u \in {Undef, "", "http://up/"}, sid \in {Undef, "feed/7"},
     fu \in {Undef, "http://up/feed"}}

\* the media properties, the enclosures and the contents of an item
MediaChoices ==
  {<<Undef, Undef, Undef>>, <<"http://h/m.png", Undef, Undef>>,
   <<Undef, "http://h/mc.png", "http://h/mt.png">>,
   <<Undef, Undef, "http://h/mt.png">>}
Enclosures == {<< >>, <<"http://h/e", ".mp3">>, <<"http://h/e", ".PNG">>}
Paragraph == [tag |-> "p", src |-> Undef]
Img(src) == [tag |-> "img", src |-> src]
Contents ==
  {<< >>, <<Paragraph, Img(Undef)>>,
   <<Paragraph, Img("http://h/c1.png"), Img("http://h/c2.png")>>}

\* items with an id and every combination of the image properties
ImageItems ==
  {[BlankItem EXCEPT !.id = "tag:1", !.image = im, !.media = m[1],
                     !.mediaContent = m[2], !.mediaThumbnail = m[3],
                     !.enclosure = e, !.content = c] :
     im \in {Undef, "http://h/i.png"}, m \in MediaChoices,
     e \in Enclosures, c \in Contents}

\* one such item in each of the three dialects; an XML item has no image
\* property and no media:content url of its own
ImageResponses ==
  {Response(<<"application/json">>, GReaderUrl, "json",
            Doc(NoVersion, "array", <<item>>)) : item \in ImageItems}
    \cup {Response(<<"application/feed+json">>, PlainUrl, "json",
                   Doc(JsonFeedVersion, "array", <<item>>)) : item \in ImageItems}
    \cup {Response(<<"application/rss+xml">>, PlainUrl, "xml",
                   Doc(NoVersion, "array", <<item>>)) :
            item \in {it \in ImageItems :
                        it.image = Undef /\ it.mediaContent = Undef}}

Responses ==
  GoogleReaderResponses \cup XmlResponses \cup AnyResponses
    \cup TimestampResponses \cup OriginResponses \cup ImageResponses

\* a response is parsed, and once more at a later time
InitParse ==
  /\ InitEngine
  /\ faults = 0
  /\ options = Options(0, 0, 0)
  /\ remote = [f \in FeedIds |-> Remote(TRUE, << >>)]
  /\ feedsCol = [f \in FeedIds |-> SeedFeed(f, TRUE)]
  /\ \E resp \in Responses :
       wire = [pc |-> "received", resp |-> resp, out |-> Thrown(NULL),
               again |-> Thrown(NULL)]

\* the body of a response has arrived: fetchFeed parses it
ParseResponse ==
  /\ wire.pc = "received"
  /\ wire' = [wire EXCEPT !.pc = "parsed", !.out = fetchFeed(wire.resp)]
  /\ UNCHANGED <<syncState, now, options, remote, feedsCol, itemsCol,
                 itemsUnique, faults, cyc, task, fullDone, timers>>

\* the same url is fetched again and answers with the same response
ParseAgain ==
  /\ wire.pc = "parsed"
  /\ wire' = [wire EXCEPT !.pc = "again", !.again = fetchFeed(wire.resp)]
  /\ UNCHANGED <<syncState, now, options, remote, feedsCol, itemsCol,
                 itemsUnique, faults, cyc, task, fullDone, timers>>

NextParse == ParseResponse \/ ParseAgain \/ Tick

SpecParse == InitParse /\ [][NextParse]_vars

\* the categories of the only item of the parsed document, before and after
RawCategories == wire.resp.body.doc.items[1].categories
OutCategories == wire.out.items[1].categories

RECURSIVE IsSubsequence(_, _)
\* ys is xs with some elements left out, the others in their order
IsSubsequence(ys, xs) ==
  IF ys = << >> THEN TRUE
  ELSE IF xs = << >> THEN FALSE
  ELSE IF Head(ys) = Head(xs) THEN IsSubsequence(Tail(ys), Tail(xs))
  ELSE IsSubsequence(ys, Tail(xs))

\* the category is an internal one: it holds a state marker or is a user path
Internal(cat) ==
  \/ \E i \in 1..Len(cat) - 1 :
       cat[i] = "state/" /\ cat[i + 1] \in {"com.google/", "org.freshrss/"}
  \/ cat[1] = "user/"

\* C21: the normalized categories of an aggregator-JSON item are exactly the
\* input categories, in input order, that neither contain "state/com.google/"
\* or "state/org.freshrss/" nor start with "user/".
C21_CategoriesFiltered ==
  (wire.pc = "parsed" /\ wire.out.via = "greader") =>
    /\ IsSubsequence(OutCategories, RawCategories)
    /\ \A i \in 1..Len(OutCategories) : ~Internal(OutCategories[i])
    /\ Len(OutCategories) =
         Cardinality({i \in 1..Len(RawCategories) : ~Internal(RawCategories[i])})

\* categories ["state/com.google/read", "news"] were normalized to ["news"]
C21_Witness ==
  /\ wire.pc = "parsed"
  /\ wire.out.via = "greader"
  /\ RawCategories = <<<<"state/", "com.google/", "read">>, <<"news">>>>
  /\ OutCategories = <<<<"news">>>>

\* the only item of the parsed document, before and after
RawItem == wire.resp.body.doc.items[1]
OutItem == wire.out.items[1]

RawItems == wire.resp.body.doc.items
OutItems == wire.out.items

\* the item carries no identifier of its own
Anonymous(item) == ~Truthy(item.guid) /\ ~Truthy(item.id) /\ ~Truthy(item.link)

\* the guids feedUrl + "#" + epoch time, for every time
TimedGuids(feedUrl) ==
  {Join(feedUrl) \o "#" \o ToString(d) : d \in 0..(StartTime + MaxTicks)}

\* C23: normalizing the identical syndication-XML payload for the same feed
\* url twice yields the same guid for every item, and an item with no guid,
\* id or link gets the guid feedUrl + "#" + epoch time of its parsed pubDate.
C23_GuidDeterministic ==
  (wire.pc = "again" /\ wire.out.via = "xml") =>
    \A i \in 1..Len(RawItems) :
      /\ wire.again.items[i].guid = OutItems[i].guid
      /\ Anonymous(RawItems[i]) => OutItems[i].guid \in TimedGuids(wire.resp.url)

(* ------------- a JSON Feed document is fetched and synced ------------- *)
\* the dates a JSON Feed item may carry as date_published / date_modified
JsonDates == {NoTime, Unparsable, OldDate}

\* JSON-Feed-spec documents with two items that have ids
JsonFeedResponses ==
  {Response(<<"application/feed+json", "; charset=utf-8">>, PlainUrl, "json",
            Doc(JsonFeedVersion, "array",
                <<[BlankItem EXCEPT !.id = "g1", !.date = d1, !.date2 = m1],
                  [BlankItem EXCEPT !.id = "g2", !.date = d2, !.date2 = m2]>>)) :
     d1 \in JsonDates, d2 \in JsonDates,
     m1 \in {NoTime, Unparsable}, m2 \in {NoTime, Unparsable}}

\* what syncFeed gets from client.fetchFeed(feed.url) for a response
AsRemote(out) ==
  [ok |-> out.ok, title |-> out.title,
   items |-> [i \in 1..Len(out.items) |->
                Item(out.items[i].guid, out.items[i].pubDate)]]

\* feed 1 serves a JSON Feed document, feed 2 answers with an HTTP error
InitJson ==
  /\ InitEngine
  /\ faults = 0
  /\ options = Options(0, 0, 1)
  /\ feedsCol = [f \in FeedIds |-> SeedFeed(f, f <= 2)]
  /\ \E resp \in JsonFeedResponses :
       /\ wire = [pc |-> "served", resp |-> resp, out |-> fetchFeed(resp),
                  again |-> Thrown(NULL)]
       /\ remote = [f \in FeedIds |->
                      IF f = 1 THEN AsRemote(fetchFeed(resp))
                      ELSE AsRemote(fetchFeed([resp EXCEPT !.ok = FALSE]))]

NextJson == TimerTick(1) \/ CycleStep(1) \/ Tick

SpecJson == InitJson /\ [][NextJson]_vars

\* neither date property of the item holds a date
Undated(item) ==
  item.date \in {NoTime, Unparsable} /\ item.date2 \in {NoTime, Unparsable}

\* the item of feed f with this guid is stored once, without a date
StoredUndated(f, g) ==
  \E d \in itemsCol :
    /\ d.feedId = f /\ d.guid = g /\ d.pubDate = NoTime
    /\ Matching(f, g) = {d}

\* C24: syncing a JSON-Feed-spec document with two items that carry no
\* date_published (and no date_modified, or an unparsable value) raises no
\* error and leaves both items stored with pubDate = null.
C24_UndatedItemsStored ==
  (\A i \in 1..2 : Undated(RawItems[i])) =>
    /\ wire.out.ok /\ wire.out.via = "jsonfeed"
    /\ \A o \in Owners : task[<<o, 1>>].err = NULL
    /\ feedsCol[1].lastError = NULL
    /\ \A p \in Procs : cyc[p].result.type # "thrown"
    /\ syncState.lastSync # NoTime =>
         \A i \in 1..2 : StoredUndated(1, RawItems[i].id)

\* after two cycles a day apart, the two items are stored without a date:
\* one had no date property, the other an unparsable date_published
C24_Witness ==
  /\ RawItems[1].date = NoTime /\ RawItems[1].date2 = NoTime
  /\ RawItems[2].date = Unparsable
  /\ syncState.lastSync = StartTime + 1
  /\ syncState.itemsAdded = 0
  /\ StoredUndated(1, "g1") /\ StoredUndated(1, "g2")
  /\ feedsCol[1].itemCount = 2

\* the feed fields that the metadata update and the catch block write
MetaOf(d) == <<d.title, d.lastFetchedAt, d.lastError>>

\* the syncFeed invocation of o for f takes a step from position pc
StepFrom(o, f, pcs) ==
  task[<<o, f>>].pc \in pcs /\ task'[<<o, f>>] # task[<<o, f>>]

PrefixLen(f) ==
  Min(IF options.maxItemsPerFeed = 0 THEN DefaultMaxItemsPerFeed
      ELSE options.maxItemsPerFeed,
      Len(remote[f].items))

\* the upsert loop of the call of o for f goes through positions 1, 2, ...
\* up to the end of the prefix, and inserts the item of its position
PrefixWalk(o, f) ==
  LET t == task[<<o, f>>]
      u == task'[<<o, f>>]
  IN /\ (u # t /\ u.pc = "upsert") =>
          /\ u.idx \in 1..PrefixLen(f)
          /\ u.idx = IF t.pc = "meta" THEN 1 ELSE t.idx + 1
     /\ (t.pc \in {"meta", "upsert", "insert"} /\ u.pc = "count") =>
          IF t.pc = "meta" THEN PrefixLen(f) = 0 ELSE t.idx = PrefixLen(f)
     /\ (t.pc = "insert" /\ u # t) =>
          \A d \in itemsCol' \ itemsCol :
            /\ d.feedId = f
            /\ d.guid = remote[f].items[t.idx].guid
            /\ d.pubDate = remote[f].items[t.idx].pubDate

\* C26: one syncFeed call attempts to upsert exactly the first
\* min(maxItemsPerFeed, n) items of the n normalized items, in source order,
\* and never an item beyond that prefix.
C26_UpsertsPrefix == [][\A o \in Owners, f \in FeedIds : PrefixWalk(o, f)]_vars

\* with a cap of one, a call has finished its upserts of a two-item payload
\* at position one: the first item is stored and the second is not
C26_Witness ==
  /\ options.maxItemsPerFeed = 1
  /\ Len(remote[1].items) = 2
  /\ remote[1].items[1].guid # remote[1].items[2].guid
  /\ task[<<1, 1>>].pc = "count"
  /\ task[<<1, 1>>].idx = 1
  /\ Matching(1, remote[1].items[1].guid) # {}
  /\ Matching(1, remote[1].items[2].guid) = {}

\* C27: the value pruneOldItems returns, which the cycle reports as
\* itemsPruned, is the number of items this pass removed from the store, also
\* when a store operation of the recount after the deletion fails; and when
\* that number is positive the itemCount of every feed has been recomputed.
C27_PrunedCountExact ==
  [][\A p \in Procs :
       (cyc[p].pc \in {"prune_find", "prune_count", "prune_set"}
          /\ cyc'[p].pc = "idle") =>
         /\ cyc'[p].result.itemsPruned = cyc[p].deleted
         /\ \A f \in StoredFeeds : feedsCol'[f].itemCount = CountDocuments(f)]_vars

(* ------------- single-feed resyncs while cycles may run --------------- *)
\* feed 1 is enabled and serves one item, feed 2 is disabled and cannot be
\* fetched, and no document has the id of slot 3
InitSingle ==
  /\ InitCommon
  /\ faults = 0
  /\ options = Options(0, 0, 1)
  /\ remote = [f \in FeedIds |->
                 IF f = 2 THEN Remote(FALSE, << >>)
                 ELSE Remote(TRUE, <<Item("g1", OldDate)>>)]
  /\ feedsCol = [f \in FeedIds |->
                   IF f <= 2 THEN SeedFeed(f, f = 1) ELSE NewFeed(FALSE)]

NextSingle ==
  \/ TimerTick(1)
  \/ CycleStep(1)
  \/ \E f \in FeedIds : \E wellFormed \in BOOLEAN : StartSingleWith(f, wellFormed)
  \/ \E f \in FeedIds : LookupFeed(f)
  \/ \E f \in FeedIds : TaskStep(Single, f)

SpecSingle == InitSingle /\ [][NextSingle]_vars

\* the single-feed resync for slot f takes a step
SingleStep(f) == task'[<<Single, f>>] # task[<<Single, f>>]

\* the id given to the resync for slot f matches no feed document
MatchesNoFeed(f) ==
  \/ task[<<Single, f>>].pc = "badid"
  \/ task[<<Single, f>>].pc = "lookup" /\ f \notin StoredFeeds

\* a resync changes no field of SyncState, deletes no item, and works only
\* on the feed it looked up
SingleFrame(f) ==
  SingleStep(f) =>
    /\ syncState' = syncState
    /\ itemsCol \subseteq itemsCol'
    /\ \A d \in itemsCol' \ itemsCol : d.feedId = f
    /\ \A g \in FeedIds \ {f} : feedsCol'[g] = feedsCol[g]

\* C28: syncSingleFeed runs the per-feed sync for the one feed it looks up,
\* whether or not a cycle is in progress, performs no pruning and leaves
\* every field of SyncState unchanged; for an id that matches no feed it
\* returns {error: "Feed not found"} and changes nothing in the store.
C28_SingleFeedFrame ==
  [][\A f \in FeedIds :
       /\ SingleFrame(f)
       /\ (SingleStep(f) /\ MatchesNoFeed(f)) =>
            /\ task'[<<Single, f>>].pc = "done"
            /\ task'[<<Single, f>>].err = ErrFeedNotFound
            /\ feedsCol' = feedsCol /\ itemsCol' = itemsCol]_vars

\* the frame of a resync alone
C28_FrameOnly == [][\A f \in FeedIds : SingleFrame(f)]_vars

\* the response says that its body is JSON
JsonMarked ==
  \/ \E i \in 1..Len(wire.resp.contentType) :
       wire.resp.contentType[i] \in {"application/json", "application/feed+json"}
  \/ \E i \in 1..Len(wire.resp.url) : wire.resp.url[i] \in {"f=greader", "f=json"}

\* a JSON document was parsed by the JSON path
JsonParsed ==
  /\ wire.pc = "parsed" /\ wire.resp.ok /\ JsonMarked
  /\ wire.resp.body.kind = "json" /\ wire.resp.body.doc.root = "object"

\* the version of the document is a string that starts with the JSON Feed URI
HasJsonFeedVersion ==
  LET v == wire.resp.body.doc.version
  IN v.t = "string" /\ v.v # << >> /\ v.v[1] = "https://jsonfeed.org/"

\* C29: a version field referencing the JSON Feed URI selects the
\* JSON-Feed-spec mapping; a root items array with no version field selects
\* the Google-Reader mapping; any other document that has an items array (a
\* version of another value or type) is mapped as Google-Reader-style and
\* succeeds; a document with no items array and no JSON Feed version makes
\* fetchFeed fail.
C29_JsonClassification ==
  JsonParsed =>
    LET doc == wire.resp.body.doc
    IN /\ (HasJsonFeedVersion /\ doc.itemsKind # "string") =>
            wire.out.ok /\ wire.out.via = "jsonfeed"
       /\ (doc.itemsKind = "array" /\ ~HasJsonFeedVersion) =>
            wire.out.ok /\ wire.out.via = "greader"
       /\ (doc.itemsKind # "array" /\ ~HasJsonFeedVersion) => ~wire.out.ok

\* C30: fetchFeed tries JSON first exactly when the content type contains
\* application/json or application/feed+json or the url contains f=greader
\* or f=json; the XML parser is then used only when the body is not
\* syntactically valid JSON; in every other case the body is parsed as
\* syndication XML directly.
C30_JsonFirst ==
  (wire.pc = "parsed" /\ wire.resp.ok) =>
    /\ wire.out.ranJson <=> JsonMarked
    /\ (wire.out.ranJson /\ wire.out.ranXml) => wire.resp.body.kind # "json"
    /\ ~wire.out.ranJson => wire.out.ranXml

\* an aggregator-JSON document with at least one item was parsed
GoogleReaderParsed ==
  /\ wire.pc = "parsed" /\ wire.out.ok /\ wire.out.via = "greader"
  /\ Len(wire.out.items) >= 1

\* the property is there and holds a number, as a number or as its digits
Numeric(x) == x.t \in {"number", "digits"}
Present(x) == x.t # "undefined"

\* C31: the pubDate of an aggregator-JSON item is published (seconds) times
\* 1000 when published is present; else timestampUsec divided by 1000 when
\* present; else crawlTimeMsec when present; else null; and it is always
\* either null or a valid instant.
C31_PubDateOrder ==
  GoogleReaderParsed =>
    LET item == wire.resp.body.doc.items[1]
        pubDate == wire.out.items[1].pubDate
    IN /\ (Present(item.published) /\ Numeric(item.published)) =>
            pubDate = item.published.n * 1000
       /\ (~Present(item.published) /\ Numeric(item.timestampUsec)) =>
            pubDate = item.timestampUsec.n \div 1000
       /\ (~Present(item.published) /\ ~Present(item.timestampUsec)
             /\ Numeric(item.crawlTimeMsec)) =>
            pubDate = item.crawlTimeMsec.n
       /\ (~Present(item.published) /\ ~Present(item.timestampUsec)
             /\ ~Present(item.crawlTimeMsec)) => pubDate = NoTime
       /\ pubDate = NoTime \/ pubDate >= 0

\* what holds of the code: the order is over truthy values, and a value
\* that is not a number gives an Invalid Date
C31_TruthyOrder ==
  GoogleReaderParsed =>
    LET item == wire.resp.body.doc.items[1]
        pubDate == wire.out.items[1].pubDate
    IN /\ (JsTruthy(item.published) /\ Numeric(item.published)) =>
            pubDate = item.published.n * 1000
       /\ (~JsTruthy(item.published) /\ Numeric(item.timestampUsec)) =>
            pubDate = item.timestampUsec.n \div 1000
       /\ (~JsTruthy(item.published) /\ ~JsTruthy(item.timestampUsec)
             /\ Numeric(item.crawlTimeMsec)) =>
            pubDate = item.crawlTimeMsec.n
       /\ (~JsTruthy(item.published) /\ ~JsTruthy(item.timestampUsec)
             /\ ~JsTruthy(item.crawlTimeMsec)) => pubDate = NoTime

\* a missing property and null are the same to a reader of the item
SameValue(a, b) == a = b \/ (a \in {Undef, NULL} /\ b \in {Undef, NULL})

\* the origin of the normalized item has the four properties of the raw one
OriginCopied ==
  /\ OutItem.origin.streamId = RawItem.originStreamId
  /\ OutItem.origin.title = RawItem.origin
  /\ OutItem.origin.htmlUrl = RawItem.originHtmlUrl
  /\ OutItem.origin.feedUrl = RawItem.originFeedUrl

\* an item without origin has a null origin, sourceTitle and sourceUrl
NoOriginAllNull ==
  ~RawItem.hasOrigin =>
    /\ OutItem.origin = NullOrigin
    /\ OutItem.sourceTitle = NULL
    /\ OutItem.sourceUrl = NULL

ItemParsed == wire.pc = "parsed" /\ wire.out.ok /\ Len(wire.out.items) >= 1

\* the fallback chain: an explicit image, then the media attributes, then an
\* enclosure with an image extension, then the first img of the content
ImageChain(item) ==
  LET ext == IF item.enclosure = << >> THEN ""
             ELSE LowerToken(item.enclosure[Len(item.enclosure)])
  IN IF item.image \notin {Undef, ""} THEN item.image
     ELSE IF item.media # Undef THEN item.media
     ELSE IF item.mediaContent # Undef THEN item.mediaContent
     ELSE IF item.mediaThumbnail # Undef THEN item.mediaThumbnail
     ELSE IF ext \in ImageExtensions THEN Join(item.enclosure)
     ELSE FirstImg(item.content)

\* C33: in all three dialects the item image is resolved by the same chain:
\* an explicit image field, then media-namespace attributes, then an
\* enclosure whose url has an image extension, then the first <img src> in
\* the content; the first source that yields a value wins and the result is
\* null only when none does.
C33_ImageChain ==
  ItemParsed => OutItem.imageUrl = ImageChain(RawItem)

\* the chain holds in the aggregator-JSON and the XML dialects
C33_ChainOutsideJsonFeed ==
  (ItemParsed /\ wire.out.via # "jsonfeed") =>
    OutItem.imageUrl = ImageChain(RawItem)

\* C34: in every reachable state no two stored feeds have the same url, for
\* any interleaving of concurrent add-feed requests for the same normalized
\* url and whether or not a sync cycle has already created the unique index.
C34_UrlsUnique ==
  \A f \in StoredFeeds : \A g \in StoredFeeds :
    feedsCol[f].url = feedsCol[g].url => f = g

\* once the unique index exists, an insert cannot create a second feed with
\* a url that is stored
C34_UniqueOnceIndexed ==
  [][itemsUnique /\ C34_UrlsUnique => C34_UrlsUnique']_vars

\* no request is being served and no syncFeed invocation is running
Quiescent ==
  /\ \A p \in Procs : cyc[p].pc = "idle"
  /\ \A k \in Owners \X FeedIds : task[k].pc \in SettledPcs

\* no store operation has failed so far
NoStoreError == faults = MaxFaults

\* the itemCount of every stored feed is the number of its stored items
CountsExact ==
  \A f \in StoredFeeds : feedsCol[f].itemCount = CountDocuments(f)

\* C35: whenever no sync, prune, clear-resync or feed-removal operation is in
\* flight, every feed's itemCount equals the number of stored items whose
\* feedId is that feed, after any sequence and interleaving of cycles,
\* single-feed resyncs, prunes and clear-resyncs that completed without
\* store errors.
C35_ItemCountExact == (Quiescent /\ NoStoreError) => CountsExact

(* ------------------ cycles started by the timers only ----------------- *)
\* SpecTimer: startSync and stopSync are called in any order, and the
\* pending timers fire; feed 1 serves one old item, feed 2 cannot be
\* fetched, the other feeds are disabled
InitTimer ==
  /\ InitCommon
  /\ faults = 0
  /\ options = Options(0, 0, 0)
  /\ remote = [f \in FeedIds |->
                 IF f = 2 THEN Remote(FALSE, << >>)
                 ELSE Remote(TRUE, <<Item("g1", OldDate)>>)]
  /\ feedsCol = [f \in FeedIds |-> SeedFeed(f, f <= 2)]

NextTimer ==
  \/ StartSync
  \/ StopSync
  \/ \E h \in 1..MaxStarts, p \in Procs : InitialRun(h, p)
  \/ \E h \in 1..MaxStarts, p \in Procs : IntervalRun(h, p)
  \/ \E p \in Procs : CycleStep(p)

SpecTimer == InitTimer /\ [][NextTimer]_vars

\* a timer callback calls runSync in this step
TimerFires ==
  \E h \in 1..MaxStarts, p \in Procs : InitialRun(h, p) \/ IntervalRun(h, p)

\* C36: after stopSync returns, no sync cycle is started by any timer that
\* startSync armed: neither the recurring interval nor the delayed initial
\* run fires a runSync afterwards.
C36_NoRunAfterStop == [][TimerFires => ~timers.stopped]_vars

\* after one startSync, stopSync keeps the interval from firing
C36_IntervalStopped ==
  [][(\E h \in 1..MaxStarts, p \in Procs : IntervalRun(h, p))
       => (~timers.stopped \/ timers.started > 1)]_vars

\* C37: at most one recurring timer drives cycle starts at any time: after
\* any sequence of startSync and stopSync calls at most one interval timer
\* is armed, and one stopSync call leaves none armed.
C37_OneInterval ==
  /\ Cardinality(timers.intervals) <= 1
  /\ timers.stopped => timers.intervals = {}

\* the interval that syncInterval names is armed, and after a single
\* startSync it is the only one
C37_HandleIsArmed ==
  /\ timers.syncInterval # 0 => timers.syncInterval \in timers.intervals
  /\ timers.started <= 1 => C37_OneInterval

(* -------------------- a feed is removed during a sync ------------------ *)
\* SpecRemove: the timer runs cycles from slot 1 and feed 1 is resynced on
\* its own while DELETE /api/feeds/:id requests for feed 1 are served from
\* slot 2; both stored feeds are enabled, feed 1 serves a recent and an old
\* item, feed 2 cannot be fetched
InitRemove ==
  /\ InitCommon
  /\ faults = 0
  /\ options = Options(0, 0, 0)
  /\ remote = [f \in FeedIds |->
                 IF f = 2 THEN Remote(FALSE, << >>)
                 ELSE Remote(TRUE, <<Item("g1", StartTime), Item("g2", OldDate)>>)]
  /\ feedsCol = [f \in FeedIds |-> IF f <= 2 THEN SeedFeed(f, TRUE)
                                   ELSE NewFeed(FALSE)]

NextRemove ==
  \/ TimerTick(1)
  \/ CycleStep(1)
  \/ RemoveFeed(2, 1)
  \/ RemoveFind(2)
  \/ RemoveItems(2)
  \/ RemoveDoc(2)
  \/ StartSingle(1)
  \/ LookupFeed(1)
  \/ TaskStep(Single, 1)

SpecRemove == InitRemove /\ [][NextRemove]_vars

\* the feeds of the seeded store whose document has been deleted
RemovedFeeds == {f \in 1..2 : feedsCol[f].url = NULL}

\* C38: once a feed-removal request has completed, the store holds no item
\* whose feedId is the removed feed, and none appears later, for any
\* interleaving of the removal with a sync cycle or single-feed resync that
\* loaded the feed before it was removed.
C38_NoOrphanItems == \A f \in RemovedFeeds : CountDocuments(f) = 0

\* the request of slot p ends in this step
RequestEnds(p) == cyc[p].pc # "idle" /\ cyc'[p].pc = "idle"

\* C39: a clear-and-resync request never leaves the cache cleared without a
\* re-sync: whenever it deletes the stored items, a full cycle over all
\* enabled feeds runs afterwards as part of the same request, also when the
\* request arrives while another cycle is in progress.
C39_ClearedThenSynced ==
  [][\A p \in Procs :
       (RequestEnds(p) /\ cyc[p].cleared /\ NoStoreError') =>
         cyc'[p].result.type = "ok"]_vars

\* when no cycle is in progress, the request that has cleared the cache
\* starts its own cycle
C39_SyncsWhenIdle ==
  [][\A p \in Procs :
       (cyc[p].pc = "clear_counts" /\ cyc'[p].pc # "clear_counts"
          /\ ~syncState.syncing /\ faults' = faults) =>
         /\ cyc'[p].pc = "indexes"
         /\ syncState'.syncing]_vars

(* ------------------- feeds are added, synced and listed ---------------- *)
\* SpecView: feeds are added from slot 2, the timer runs cycles from slot 1,
\* and the feed list and the dashboard are requested from slot 2
InitView ==
  /\ InitCommon
  /\ faults = 0
  /\ options = Options(1, 0, 1)
  /\ remote = [f \in FeedIds |->
                 IF f = 2 THEN Remote(FALSE, << >>)
                 ELSE Remote(TRUE, <<Item("g1", OldDate)>>)]
  /\ feedsCol = [f \in FeedIds |-> NewFeed(FALSE)]

NextView ==
  \/ AddStep(2)
  \/ TimerTick(1)
  \/ CycleStep(1)
  \/ \E page \in {"list", "dashboard"} : ViewRequest(2, page)
  \/ ViewRespond(2)

SpecView == InitView /\ [][NextView]_vars

\* the documents of a view request of slot p have been found and formatted
\* in this step, with no store error
ViewAnswered(p) ==
  /\ cyc[p].pc \in {"list", "dashboard"}
  /\ cyc'[p].pc = "idle"
  /\ faults' = faults

\* C40: formatFeed and formatItem return a response object without throwing
\* for every feed and item document that add-feed and the sync engine can
\* write, so listing feeds and items succeeds after any sequence of adds and
\* syncs.
C40_ViewsSucceed ==
  [][\A p \in Procs : ViewAnswered(p) => cyc'[p].result = HttpResult(MsgRendered)]_vars

\* the views succeed as long as no feed has been synced and no item stored
C40_FreshFeedsListed ==
  [][\A p \in Procs :
       (ViewAnswered(p) /\ itemsCol = {}
        /\ \A f \in FeedIds : feedsCol[f].lastFetchedAt = NoTime) =>
         cyc'[p].result = HttpResult(MsgRendered)]_vars
====
